---- MODULE Spec2Model ----
(***************************************************************************)
(* Model of the Meta Post publish orchestrator: one call of handleImage or *)
(* handleVideo, the publish retry loop, the status poll loop, the          *)
(* concurrent page video upload and the compensation of the video flow.    *)
(* Every remote call is one action; its outcome is chosen by \E.           *)
(***************************************************************************)
EXTENDS Integers, Sequences, FiniteSets, TLC

\* ---------------------------------------------------------------- bounds

\* Identifiers handed out by the remote side are 1..MaxId.
MaxId == 2

Ids == 1..MaxId

\* "no id": the value of a missing body.id / an unset fbPhotoId.
NoId == 0

\* ------------------------------------------------- program constants

\* const delays = [1000, 2000, 3000, 4000, 5000]
delays == <<1000, 2000, 3000, 4000, 5000>>

\* const maxPolls = 30
maxPolls == 30

\* const pollInterval = 10000
pollInterval == 10000

\* 'Only photo or video can be accepted', as words: the part a header may
\* end with and the part a body message may start with.
SigHead == "Only photo or"

SigTail == "video can be accepted"

FormatSignature == <<SigHead, SigTail>>

\* ------------------------------------------------------------ text

\* haystack.includes(needle), on texts held as sequences of fragments
Includes(haystack, needle) ==
    \E i \in 0..(Len(haystack) - Len(needle)) :
        \A j \in 1..Len(needle) : haystack[i + j] = needle[j]

\* ------------------------------------------------- remote responses

\* Texts a www-authenticate header or a body error message may hold.
HeaderTexts == { <<>>, <<SigHead, SigTail>>, <<"x", SigHead>> }

BodyTexts == { <<>>, <<SigHead, SigTail>>, <<SigTail, "x">>, <<"bad">> }

\* FullResponse of tryCreateIgImageContainer: status, headers, body.
CreateResponses ==
    { [statusCode |-> 200, id |-> i, wwwAuth |-> <<>>, bodyMsg |-> <<>>] : i \in Ids }
    \cup { [statusCode |-> 200, id |-> NoId, wwwAuth |-> h, bodyMsg |-> <<>>] :
             h \in HeaderTexts }
    \cup { [statusCode |-> 400, id |-> NoId, wwwAuth |-> h, bodyMsg |-> b] :
             h \in HeaderTexts, b \in BodyTexts }
    \cup { [statusCode |-> 500, id |-> NoId, wwwAuth |-> <<>>, bodyMsg |-> <<"bad">>] }

NoCreateResp == [statusCode |-> 0, id |-> NoId, wwwAuth |-> <<>>, bodyMsg |-> <<>>]

\* FullResponse of publishIgContainer: status and body (id; msg is the text
\* formatIgApiError takes from body.error: code, subcode and message).
PublishResponses ==
    { [statusCode |-> 200, id |-> i, msg |-> <<>>] : i \in Ids \cup {NoId} }
    \cup { [statusCode |-> s, id |-> NoId, msg |-> <<"bad">>] :
             s \in {199, 399, 400, 499, 500, 503} }
    \cup { [statusCode |-> 299, id |-> 1, msg |-> <<>>],
           [statusCode |-> 400, id |-> NoId,
            msg |-> <<"subcode ", "2", "2", "0", "7", "0", "8", "9">>] }

NoResp == [statusCode |-> 0, id |-> NoId, msg |-> <<>>]

\* status_code values of IgStatusResponse
ContainerStatuses == {"IN_PROGRESS", "FINISHED", "ERROR", "EXPIRED", "PUBLISHED"}

\* ------------------------------------------------------------ errors

\* msg is error.message: a sequence of characters, a fixed text of the code
\* being one piece
NoError == [type |-> "none", src |-> "", status |-> 0, msg |-> <<>>, orig |-> ""]

Err(type, src, status, msg) ==
    [type |-> type, src |-> src, status |-> status, msg |-> msg, orig |-> ""]

\* an error raised by ctx.helpers.httpRequest or by a helper process
Raised(src, msg) == Err("raised", src, 0, msg)

\* the message of a failure that names no Instagram error
PlainMessage == <<"request failed">>

\* messages of the errors createIgReelContainer can raise
RaisedMessages ==
    { PlainMessage, <<>>,
      <<"2", "2", "0", "7", "0", "8", "9">>,
      <<"2", "2", "0", "7", "0", "8">>,
      <<"c", "a", "r", "o", "u", "s", "e", "l">>,
      <<"x", "C", "a", "r", "o", "u", "s", "e", "l", "x">>,
      <<"C", "A", "R", "O", "U", "S", "E", "L">>,
      <<"c", "a", "r", "o", "u", "s", "e">> }

\* formatIgApiError(resp): carries the status and the message of resp
formatIgApiError(resp) ==
    Err("publish_failed", "publishIgContainer", resp.statusCode,
        <<"Instagram publish failed (HTTP): ">> \o resp.msg)

NoResult ==
    [instagram_post_id |-> NoId, instagram_permalink |-> NoId,
     facebook_post_id |-> [page |-> "", id |-> NoId],
     facebook_photo_id |-> NoId, facebook_video_id |-> NoId]

\* ------------------------------------------------------------- state

VARIABLES
    kind,            \* params.mediaType
    pc,              \* position in handleImage / handleVideo
    log,             \* calls issued so far, in order
    error,           \* the error thrown (inside the try block: caught)
    result,          \* the MetaPostResult returned
    containerResp,   \* handleImage: containerResp
    igContainerId,   \* igContainerId / igContainer.id
    igPostId,        \* igPost.id
    fbPhotoId,       \* fbPhotoId
    attempt,         \* publishIgContainerWithRetry: attempt
    lastResp,        \* publishIgContainerWithRetry: resp
    retriedOnly5xx,  \* every response retried so far had a status in [500,600)
    publishArgs,     \* container ids the publish calls were issued for
    retrySlept,      \* sleep(delays[attempt]) calls, in order
    pollAttempt,     \* pollIgContainer: attempt
    lastStatus,      \* pollIgContainer: status.status_code
    polledIds,       \* container ids getIgContainerStatus was called with
    pollSlept,       \* sleep(pollInterval) calls, in order
    fbVideoPromise,  \* state of the promise of uploadFbVideoFromBuffer
    uploadAtCatch,   \* fbVideoPromise.state when the catch block was entered
    caught,          \* the error the catch block of handleVideo received
    deletedIds,      \* ids deleteFbVideo was called with
    activeVideos,    \* tempServer registry: registered file names
    registrations,   \* calls of activeVideos.set
    closeCalls,      \* calls of tempServer.close()
    igPosts,         \* remote: published posts on the first destination
    fbPhotos,        \* remote: unpublished photos on the second destination
    fbFeedPosts,     \* remote: feed posts on the second destination
    fbVideos,        \* remote: published videos on the second destination
    serverFound,     \* tempServer: findN8nServer() finds a listening server
    listeners,       \* host server: its 'request' listeners, in order
    interceptorInstalled, \* tempServer: interceptorInstalled
    originalHandler, \* installInterceptor: originalHandler
    priorListeners,  \* the 'request' listeners at the time of the install
    installs,        \* number of times the wrapping listener was added
    videoBuffer,     \* tempServer: the values of the activeVideos Map
    handles,         \* file names a TempVideoServer was returned for
    ownBuffer,       \* the buffer each of these was started with
    closedFiles,     \* file names whose close() has been called
    lastStart,       \* outcome of the last startTempVideoServer call
    lastReq,         \* the last request the host server received
    lastRes,         \* what the endpoint answered to it
    servedBuffer,    \* the buffer activeVideos.get returned for it
    keysAtReq,       \* the keys of activeVideos when it arrived
    deliveredTo,     \* the host listeners the request was handed to
    dVariant,        \* dedicated listener: which of its two versions runs
    dState,          \* its http.Server: none, listening, closing, closed, failed
    dBuffer,         \* the buffer it serves
    dConns,          \* its open connections
    dCloseResolved,  \* the promise of close() has resolved
    dReq,            \* the last request it received
    dRes,            \* its answer
    dReqAfterClose,  \* that request arrived after close() had resolved
    \* caption formatting (prepareCaption)
    caption,         \* the caption argument of the latest call
    hashSuffix,      \* the hashSuffix argument
    prepared,        \* what the latest call returned
    captionCalls,    \* calls of prepareCaption so far
    \* MetaPost.execute
    items,           \* this.getInputData(): the media type of each item
    continueOnFail,  \* this.continueOnFail()
    itemIndex,       \* i of the for loop
    execPc,          \* position inside execute
    itemError,       \* the error the try block of the current item threw
    returnData,      \* the output entries pushed so far
    execLog,         \* the calls execute has issued, as <<call, i>>
    outcomes,        \* how the try block of each item so far ended
    \* the n8n instance
    baseUrl          \* ctx.getInstanceBaseUrl(): origin, then path pieces

retryVars == <<attempt, lastResp, retriedOnly5xx, publishArgs, retrySlept>>

pollVars == <<pollAttempt, lastStatus, polledIds, pollSlept>>

uploadVars == <<fbVideoPromise, uploadAtCatch, caught, deletedIds>>

serverVars == <<activeVideos, registrations, closeCalls>>

remoteVars == <<igPosts, fbPhotos, fbFeedPosts, fbVideos>>

localVars == <<containerResp, igContainerId, igPostId, fbPhotoId, result>>

hostVars == <<serverFound, listeners, interceptorInstalled, originalHandler,
              priorListeners, installs, videoBuffer, handles, ownBuffer,
              closedFiles, lastStart, lastReq, lastRes, servedBuffer,
              keysAtReq, deliveredTo>>

dedicatedVars == <<dVariant, dState, dBuffer, dConns, dCloseResolved, dReq,
                   dRes, dReqAfterClose>>

captionVars == <<caption, hashSuffix, prepared, captionCalls>>
executeVars == <<items, continueOnFail, itemIndex, execPc, itemError,
                 returnData, execLog, outcomes>>

\* what no step of handleImage / handleVideo changes
outsideFlow == <<hostVars, dedicatedVars, captionVars, executeVars, baseUrl>>

vars == <<kind, pc, log, error, localVars, retryVars, pollVars, uploadVars,
          serverVars, remoteVars, hostVars, dedicatedVars, captionVars,
          executeVars, baseUrl>>

\* the file name startTempVideoServer registers (randomUUID().mp4)
VideoFile == "uuid.mp4"

NoPromise == [state |-> "none", id |-> NoId]

\* no request has been received yet
NoReq == [method |-> "", url |-> <<>>, range |-> <<>>]

\* no answer of the endpoint
NoRes ==
    [status |-> 0, contentType |-> "", contentLength |-> <<>>,
     contentRange |-> <<>>, acceptRanges |-> "", connection |-> "",
     body |-> <<>>]

\* the state of the tempServer module when it is loaded, on a host whose
\* server has the request listeners `ls`
HostLoaded(found, ls) ==
    /\ serverFound = found
    /\ listeners = ls
    /\ interceptorInstalled = FALSE
    /\ originalHandler = "none"
    /\ priorListeners = <<>>
    /\ installs = 0
    /\ videoBuffer = [g \in {} |-> <<>>]
    /\ handles = {}
    /\ ownBuffer = [g \in {} |-> <<>>]
    /\ closedFiles = {}
    /\ lastStart = "none"
    /\ lastReq = NoReq
    /\ lastRes = NoRes
    /\ servedBuffer = <<>>
    /\ keysAtReq = {}
    /\ deliveredTo = <<>>

\* no dedicated listener has been created
DedicatedIdle(variant) ==
    /\ dVariant = variant
    /\ dState = "none"
    /\ dBuffer = <<>>
    /\ dConns = {}
    /\ dCloseResolved = FALSE
    /\ dReq = NoReq
    /\ dRes = NoRes
    /\ dReqAfterClose = FALSE

\* prepareCaption has not been called
CaptionIdle ==
    /\ caption = <<>>
    /\ hashSuffix = <<>>
    /\ prepared = <<>>
    /\ captionCalls = 0

\* the base URL of an instance served from the root of its host
RootBaseUrl == <<"https://host">>

\* execute has not been called
ExecuteIdle ==
    /\ items = <<>>
    /\ continueOnFail = FALSE
    /\ itemIndex = 0
    /\ execPc = "idle"
    /\ itemError = ""
    /\ returnData = <<>>
    /\ execLog = <<>>
    /\ outcomes = <<>>

\* one call of handleImage / handleVideo about to start
FlowInit ==
    /\ pc = IF kind = "image" THEN "img_try_create" ELSE "vid_download"
    /\ log = <<>>
    /\ error = NoError
    /\ result = NoResult
    /\ containerResp = NoCreateResp
    /\ igContainerId = NoId
    /\ igPostId = NoId
    /\ fbPhotoId = NoId
    /\ attempt = 0
    /\ lastResp = NoResp
    /\ retriedOnly5xx = TRUE
    /\ publishArgs = <<>>
    /\ retrySlept = <<>>
    /\ pollAttempt = 0
    /\ lastStatus = ""
    /\ polledIds = {}
    /\ pollSlept = <<>>
    /\ fbVideoPromise = NoPromise
    /\ uploadAtCatch = "none"
    /\ caught = NoError
    /\ deletedIds = <<>>
    /\ activeVideos = {}
    /\ registrations = 0
    /\ closeCalls = 0
    /\ igPosts = {}
    /\ fbPhotos = {}
    /\ fbFeedPosts = {}
    /\ fbVideos = {}

Init ==
    /\ kind \in {"image", "video"}
    /\ FlowInit
    /\ HostLoaded(TRUE, <<"n8n">>)
    /\ DedicatedIdle("range")
    /\ CaptionIdle
    /\ ExecuteIdle
    /\ baseUrl = RootBaseUrl

\* ------------------------------------------------------- control flow

Issue(call) == log' = Append(log, call)

\* a throw that leaves handleImage, or handleVideo outside its try block
Throw(e) ==
    /\ pc' = "failed"
    /\ error' = e

\* a throw inside the try block of handleVideo: control goes to the catch
Catch(e) ==
    /\ pc' = "vid_catch_await"
    /\ error' = e
    /\ uploadAtCatch' = fbVideoPromise.state
    /\ caught' = e

\* a throw of the first-destination steps: out of handleImage, or caught
ThrowIg(e) ==
    IF kind = "image"
    THEN Throw(e) /\ UNCHANGED <<uploadAtCatch, caught>>
    ELSE Catch(e)

\* variant: the upload is awaited before the container is created
AwaitsUpload_beforeCreate(p) == p \in {"vid_create", "vid_catch_await", "vid_join"}

\* the positions of handleVideo that are an `await fbVideoPromise`
AwaitsUpload(p) == p \in {"vid_catch_await", "vid_join"}

\* handleVideo is suspended on the promise of the upload
Blocked == AwaitsUpload(pc) /\ fbVideoPromise.state = "pending"

\* ------------------------------------------------ publish with retry

\* variant: a 2xx response without an id counts as published
IsPublishSuccess_statusOnly(resp) ==
    resp.statusCode >= 200 /\ resp.statusCode < 300

\* resp.statusCode >= 200 && resp.statusCode < 300 && resp.body?.id
IsPublishSuccess(resp) ==
    resp.statusCode >= 200 /\ resp.statusCode < 300 /\ resp.id # NoId

\* variant: 3xx responses are final as well
IsClientError_from300(resp) == resp.statusCode >= 300 /\ resp.statusCode < 500

\* variant: the lower bound of the 4xx test is exclusive
IsClientError_exclusive(resp) == resp.statusCode > 400 /\ resp.statusCode < 500

\* resp.statusCode >= 400 && resp.statusCode < 500
IsClientError(resp) == resp.statusCode >= 400 /\ resp.statusCode < 500

\* variant: one retry too many
RetriesExhausted_late(a) == a > Len(delays)

\* attempt >= delays.length
RetriesExhausted(a) == a >= Len(delays)

\* variant: every backoff is the first delay
BackoffDelay_first(a) == delays[1]

\* delays[attempt], attempt counted from 0 (past the end: undefined, and
\* sleep(undefined) waits 0 ms)
BackoffDelay(a) == IF a + 1 \in DOMAIN delays THEN delays[a + 1] ELSE 0

\* variant: close() sits in the catch block, not in a finally block
AfterPublish_noFinally ==
    IF kind = "image"
    THEN (IF fbPhotoId = NoId THEN "img_upload_url" ELSE "img_feed_post")
    ELSE "vid_join"

\* variant: the by-URL upload is not skipped after a buffer upload
AfterPublish_alwaysUploadUrl ==
    IF kind = "image" THEN "img_upload_url" ELSE "vid_finally"

\* where control goes once publishIgContainerWithRetry has returned
AfterPublish ==
    IF kind = "image"
    THEN (IF fbPhotoId = NoId THEN "img_upload_url" ELSE "img_feed_post")
    ELSE "vid_finally"

\* one iteration of the loop up to its sleep: the publish call and the
\* three tests on its response
PublishIgContainer ==
    /\ pc = "publish"
    /\ ~Blocked
    /\ Issue("publishIgContainer")
    /\ publishArgs' = Append(publishArgs, igContainerId)
    /\ \/ \E resp \in PublishResponses :
            /\ lastResp' = resp
            /\ IF IsPublishSuccess(resp)
               THEN /\ igPostId' = resp.id
                    /\ igPosts' = igPosts \cup {resp.id}
                    /\ pc' = AfterPublish
                    /\ UNCHANGED <<error, uploadAtCatch, caught, retriedOnly5xx>>
               ELSE /\ UNCHANGED <<igPostId, igPosts>>
                    /\ IF IsClientError(resp) \/ RetriesExhausted(attempt)
                       THEN /\ ThrowIg(formatIgApiError(resp))
                            /\ UNCHANGED retriedOnly5xx
                       ELSE /\ pc' = "publish_backoff"
                            /\ retriedOnly5xx' =
                                  (retriedOnly5xx /\ resp.statusCode \in 500..599)
                            /\ UNCHANGED <<error, uploadAtCatch, caught>>
       \/ \* the call raises: no try block in the loop
          /\ ThrowIg(Raised("publishIgContainer", PlainMessage))
          /\ UNCHANGED <<lastResp, retriedOnly5xx, igPostId, igPosts>>
    /\ UNCHANGED <<outsideFlow, kind, result, containerResp, igContainerId, fbPhotoId, attempt,
                   retrySlept, pollVars, fbVideoPromise, deletedIds, serverVars,
                   fbPhotos, fbFeedPosts, fbVideos>>

\* await sleep(delays[attempt]); attempt++
RetrySleep ==
    /\ pc = "publish_backoff"
    /\ ~Blocked
    /\ Issue("sleep")
    /\ retrySlept' = Append(retrySlept, BackoffDelay(attempt))
    /\ attempt' = attempt + 1
    /\ pc' = "publish"
    /\ UNCHANGED <<outsideFlow, kind, error, localVars, lastResp, retriedOnly5xx, publishArgs, pollVars,
                   uploadVars, serverVars, remoteVars>>

\* --------------------------------------------------------- image flow

\* containerResp.statusCode >= 200 && < 300 && containerResp.body?.id
IsCreateSuccess(resp) ==
    resp.statusCode >= 200 /\ resp.statusCode < 300 /\ resp.id # NoId

\* variant: only the body message is searched
IsFormatError_bodyOnly(resp) == Includes(resp.bodyMsg, FormatSignature)

\* errorText = wwwAuth + ' ' + bodyMsg; errorText.includes(signature)
IsFormatError(resp) == Includes(resp.wwwAuth \o resp.bodyMsg, FormatSignature)

\* tryCreateIgImageContainer followed by the photo upload ahead of the publish
TryCreateIgImageContainer_uploadFirst ==
    /\ pc = "img_try_create"
    /\ Issue("tryCreateIgImageContainer")
    /\ \E resp \in {r \in CreateResponses : IsCreateSuccess(r)} :
          /\ containerResp' = resp
          /\ igContainerId' = resp.id
          /\ pc' = "img_upload_url"
    /\ UNCHANGED <<outsideFlow, kind, error, result, igPostId, fbPhotoId, retryVars,
                   pollVars, uploadVars, serverVars, remoteVars>>

\* Step 1: container with the original URL, and the branch on its response
TryCreateIgImageContainer ==
    /\ pc = "img_try_create"
    /\ Issue("tryCreateIgImageContainer")
    /\ \/ \E resp \in CreateResponses :
            /\ containerResp' = resp
            /\ IF IsCreateSuccess(resp)
               THEN /\ igContainerId' = resp.id
                    /\ pc' = "publish"
                    /\ UNCHANGED error
               ELSE /\ UNCHANGED igContainerId
                    /\ IF IsFormatError(resp)
                       THEN pc' = "img_download" /\ UNCHANGED error
                       ELSE Throw(Err("container_create_failed",
                                      "tryCreateIgImageContainer", resp.statusCode, PlainMessage))
       \/ /\ Throw(Raised("tryCreateIgImageContainer", PlainMessage))
          /\ UNCHANGED <<containerResp, igContainerId>>
    /\ UNCHANGED <<outsideFlow, kind, result, igPostId, fbPhotoId, retryVars, pollVars,
                   uploadVars, serverVars, remoteVars>>

\* downloadMedia(ctx, mediaUrl), of either flow
DownloadMedia ==
    /\ pc \in {"img_download", "vid_download"}
    /\ Issue("downloadMedia")
    /\ \/ /\ pc' = (IF pc = "img_download" THEN "img_convert" ELSE "vid_convert")
          /\ UNCHANGED error
       \/ Throw(Raised("downloadMedia", PlainMessage))
    /\ UNCHANGED <<outsideFlow, kind, localVars, retryVars, pollVars, uploadVars, serverVars,
                   remoteVars>>

\* convertImage(imageBuffer, ...)
ConvertImage ==
    /\ pc = "img_convert"
    /\ Issue("convertImage")
    /\ \/ pc' = "img_upload_buffer" /\ UNCHANGED error
       \/ Throw(Raised("convertImage", PlainMessage))
    /\ UNCHANGED <<outsideFlow, kind, localVars, retryVars, pollVars, uploadVars, serverVars,
                   remoteVars>>

\* uploadFbPhotoFromBuffer(..., published = false); fbPhotoId = fbPhoto.id
UploadFbPhotoFromBuffer ==
    /\ pc = "img_upload_buffer"
    /\ Issue("uploadFbPhotoFromBuffer")
    /\ \/ \E i \in Ids :
            /\ fbPhotoId' = i
            /\ fbPhotos' = fbPhotos \cup {i}
            /\ pc' = "img_photo_images"
            /\ UNCHANGED error
       \/ /\ Throw(Raised("uploadFbPhotoFromBuffer", PlainMessage))
          /\ UNCHANGED <<fbPhotoId, fbPhotos>>
    /\ UNCHANGED <<outsideFlow, kind, result, containerResp, igContainerId, igPostId, retryVars, pollVars,
                   uploadVars, serverVars, igPosts, fbFeedPosts, fbVideos>>

\* getFbPhotoImages and the test of images[0]?.source
GetFbPhotoImages ==
    /\ pc = "img_photo_images"
    /\ Issue("getFbPhotoImages")
    /\ \/ pc' = "img_retry_create" /\ UNCHANGED error
       \/ Throw(Err("no_cdn_url", "getFbPhotoImages", 0, PlainMessage))
       \/ Throw(Raised("getFbPhotoImages", PlainMessage))
    /\ UNCHANGED <<outsideFlow, kind, localVars, retryVars, pollVars, uploadVars, serverVars,
                   remoteVars>>

\* variant: a failure of the second container-create starts the fallback
\* again
CreateIgImageContainer_retrying ==
    /\ pc = "img_retry_create"
    /\ Issue("createIgImageContainer")
    /\ \/ \E i \in Ids :
            /\ igContainerId' = i
            /\ pc' = "publish"
       \/ /\ pc' = "img_download"
          /\ UNCHANGED igContainerId
    /\ UNCHANGED <<outsideFlow, kind, error, result, containerResp, igPostId, fbPhotoId, retryVars,
                   pollVars, uploadVars, serverVars, remoteVars>>

\* createIgImageContainer with the CDN URL; igContainerId = retryContainer.id
CreateIgImageContainer ==
    /\ pc = "img_retry_create"
    /\ Issue("createIgImageContainer")
    /\ \/ \E i \in Ids :
            /\ igContainerId' = i
            /\ pc' = "publish"
            /\ UNCHANGED error
       \/ /\ Throw(Raised("createIgImageContainer", PlainMessage))
          /\ UNCHANGED igContainerId
    /\ UNCHANGED <<outsideFlow, kind, result, containerResp, igPostId, fbPhotoId, retryVars, pollVars,
                   uploadVars, serverVars, remoteVars>>

\* uploadFbPhotoFromUrl called again after a failure
UploadFbPhotoFromUrl_retrying ==
    /\ pc = "img_upload_url"
    /\ Issue("uploadFbPhotoFromUrl")
    /\ \/ \E i \in Ids :
            /\ fbPhotoId' = i
            /\ fbPhotos' = fbPhotos \cup {i}
            /\ pc' = "img_feed_post"
       \/ UNCHANGED <<fbPhotoId, fbPhotos, pc>>
    /\ UNCHANGED <<outsideFlow, kind, error, result, containerResp, igContainerId, igPostId,
                   retryVars, pollVars, uploadVars, serverVars, igPosts,
                   fbFeedPosts, fbVideos>>

\* Step 4: uploadFbPhotoFromUrl, reached only if (!fbPhotoId)
UploadFbPhotoFromUrl ==
    /\ pc = "img_upload_url"
    /\ Issue("uploadFbPhotoFromUrl")
    /\ \/ \E i \in Ids :
            /\ fbPhotoId' = i
            /\ fbPhotos' = fbPhotos \cup {i}
            /\ pc' = "img_feed_post"
            /\ UNCHANGED error
       \/ /\ Throw(Raised("uploadFbPhotoFromUrl", PlainMessage))
          /\ UNCHANGED <<fbPhotoId, fbPhotos>>
    /\ UNCHANGED <<outsideFlow, kind, result, containerResp, igContainerId, igPostId, retryVars, pollVars,
                   uploadVars, serverVars, igPosts, fbFeedPosts, fbVideos>>

\* Step 5: createFbFeedPost attaching fbPhotoId
CreateFbFeedPost ==
    /\ pc = "img_feed_post"
    /\ Issue("createFbFeedPost")
    /\ \/ \E i \in Ids :
            /\ fbFeedPosts' = fbFeedPosts \cup {[id |-> i, media_fbid |-> fbPhotoId]}
            /\ result' = [result EXCEPT !.facebook_post_id = [page |-> "", id |-> i]]
            /\ pc' = "img_permalink"
            /\ UNCHANGED error
       \/ /\ Throw(Raised("createFbFeedPost", PlainMessage))
          /\ UNCHANGED <<fbFeedPosts, result>>
    /\ UNCHANGED <<outsideFlow, kind, containerResp, igContainerId, igPostId, fbPhotoId, retryVars, pollVars,
                   uploadVars, serverVars, igPosts, fbPhotos, fbVideos>>

\* the video id alone, without the page id
FbVideoPostId_bare(videoId) == [page |-> "", id |-> videoId]

\* `${facebookPageId}_${fbVideo.id}`
FbVideoPostId(videoId) == [page |-> "facebookPageId_", id |-> videoId]

\* a result reporting the container in place of the published post
ImageResult_containerId(permalink) ==
    [instagram_post_id |-> igContainerId, instagram_permalink |-> permalink,
     facebook_post_id |-> result.facebook_post_id,
     facebook_photo_id |-> fbPhotoId, facebook_video_id |-> NoId]

\* the MetaPostResult handleImage returns
ImageResult(permalink) ==
    [instagram_post_id |-> igPostId, instagram_permalink |-> permalink,
     facebook_post_id |-> result.facebook_post_id,
     facebook_photo_id |-> fbPhotoId, facebook_video_id |-> NoId]

\* the MetaPostResult handleVideo returns
VideoResult(permalink) ==
    [instagram_post_id |-> igPostId, instagram_permalink |-> permalink,
     facebook_post_id |-> FbVideoPostId(fbVideoPromise.id),
     facebook_photo_id |-> NoId, facebook_video_id |-> fbVideoPromise.id]

\* getIgPermalink(igPost.id) and the return of either flow; the permalink
\* is held as the id of the post it links to
GetIgPermalink ==
    /\ pc \in {"img_permalink", "vid_permalink"}
    /\ Issue("getIgPermalink")
    /\ \/ /\ result' = (IF pc = "img_permalink" THEN ImageResult(igPostId)
                                                ELSE VideoResult(igPostId))
          /\ pc' = "done"
          /\ UNCHANGED error
       \/ /\ Throw(Raised("getIgPermalink", PlainMessage))
          /\ UNCHANGED result
    /\ UNCHANGED <<outsideFlow, kind, containerResp, igContainerId, igPostId, fbPhotoId, retryVars, pollVars,
                   uploadVars, serverVars, remoteVars>>

\* --------------------------------------------------------- video flow

\* convertVideo(videoBuffer, ...)
ConvertVideo ==
    /\ pc = "vid_convert"
    /\ Issue("convertVideo")
    /\ \/ pc' = "vid_register" /\ UNCHANGED error
       \/ Throw(Raised("convertVideo", PlainMessage))
    /\ UNCHANGED <<outsideFlow, kind, localVars, retryVars, pollVars, uploadVars, serverVars,
                   remoteVars>>

\* activeVideos.set(filename, buffer)
Register(av) == av \cup {VideoFile}

\* close: activeVideos.delete(filename)
Unregister(av) == av \ {VideoFile}

\* Step 2: startTempVideoServer: registers the buffer, or rejects when no
\* host server or no request listener is found
StartTempVideoServer ==
    /\ pc = "vid_register"
    /\ Issue("startTempVideoServer")
    /\ \/ /\ activeVideos' = Register(activeVideos)
          /\ registrations' = registrations + 1
          /\ pc' = "vid_upload_start"
          /\ UNCHANGED error
       \/ /\ Throw(Raised("startTempVideoServer", PlainMessage))
          /\ UNCHANGED <<activeVideos, registrations>>
    /\ UNCHANGED <<outsideFlow, kind, localVars, retryVars, pollVars, uploadVars, closeCalls,
                   remoteVars>>

\* Step 3: fbVideoPromise = uploadFbVideoFromBuffer(...), not awaited
StartFbVideoUpload ==
    /\ pc = "vid_upload_start"
    /\ Issue("uploadFbVideoFromBuffer")
    /\ fbVideoPromise' = [state |-> "pending", id |-> NoId]
    /\ pc' = "vid_create"
    /\ UNCHANGED <<outsideFlow, kind, error, localVars, retryVars, pollVars, uploadAtCatch, caught,
                   deletedIds, serverVars, remoteVars>>

\* the upload request completes, at any time while handleVideo is suspended
FbVideoUploadSettles ==
    /\ fbVideoPromise.state = "pending"
    /\ \/ \E i \in Ids :
            /\ fbVideoPromise' = [state |-> "resolved", id |-> i]
            /\ fbVideos' = fbVideos \cup {i}
       \/ /\ fbVideoPromise' = [state |-> "rejected", id |-> NoId]
          /\ UNCHANGED fbVideos
    /\ UNCHANGED <<outsideFlow, kind, pc, log, error, localVars, retryVars, pollVars,
                   uploadAtCatch, caught, deletedIds, serverVars, igPosts, fbPhotos,
                   fbFeedPosts>>

\* Step 4: createIgReelContainer, first call of the try block
CreateIgReelContainer ==
    /\ pc = "vid_create"
    /\ ~Blocked
    /\ Issue("createIgReelContainer")
    /\ \/ \E i \in Ids :
            /\ igContainerId' = i
            /\ pc' = "vid_poll"
            /\ UNCHANGED <<error, uploadAtCatch, caught>>
       \/ \E m \in RaisedMessages :
            /\ Catch(Raised("createIgReelContainer", m))
            /\ UNCHANGED igContainerId
    /\ UNCHANGED <<outsideFlow, kind, result, containerResp, igPostId, fbPhotoId, retryVars, pollVars,
                   fbVideoPromise, deletedIds, serverVars, remoteVars>>

\* variant: the loop bound is inclusive
PollsLeft_inclusive(a) == a <= maxPolls

\* attempt < maxPolls
PollsLeft(a) == a < maxPolls

\* body of the poll loop up to its first await: sleep(pollInterval)
PollSleep ==
    /\ pc = "vid_poll"
    /\ ~Blocked
    /\ PollsLeft(pollAttempt)
    /\ Issue("sleep")
    /\ pollSlept' = Append(pollSlept, pollInterval)
    /\ pc' = "vid_poll_status"
    /\ UNCHANGED <<outsideFlow, kind, error, localVars, retryVars, pollAttempt, lastStatus,
                   polledIds, uploadVars, serverVars, remoteVars>>

\* variant: PUBLISHED is taken for ready as well
IsFinished_orPublished(st) == st \in {"FINISHED", "PUBLISHED"}

\* status.status_code === 'FINISHED'
IsFinished(st) == st = "FINISHED"

\* variant: PUBLISHED is taken for a failure
IsProcessingFailure_orPublished(st) == st \in {"ERROR", "EXPIRED", "PUBLISHED"}

\* variant: EXPIRED is not taken for a failure
IsProcessingFailure_errorOnly(st) == st = "ERROR"

\* status.status_code === 'ERROR' || status.status_code === 'EXPIRED'
IsProcessingFailure(st) == st \in {"ERROR", "EXPIRED"}

\* getIgContainerStatus, the two tests on its status_code, attempt++ and
\* the loop test; past the loop, the timeout error
GetIgContainerStatus ==
    /\ pc = "vid_poll_status"
    /\ ~Blocked
    /\ Issue("getIgContainerStatus")
    /\ polledIds' = polledIds \cup {igContainerId}
    /\ \/ \E st \in ContainerStatuses :
            /\ lastStatus' = st
            /\ IF IsFinished(st)
               THEN /\ pc' = "publish"
                    /\ UNCHANGED <<pollAttempt, error, uploadAtCatch, caught>>
               ELSE IF IsProcessingFailure(st)
               THEN /\ Catch(Err("processing_failed", "pollIgContainer", 0,
                              <<"Instagram Reel processing failed">>))
                    /\ UNCHANGED pollAttempt
               ELSE /\ pollAttempt' = pollAttempt + 1
                    /\ IF PollsLeft(pollAttempt + 1)
                       THEN pc' = "vid_poll" /\ UNCHANGED <<error, uploadAtCatch, caught>>
                       ELSE Catch(Err("timeout", "pollIgContainer", 0,
                                      <<"Instagram Reel processing timed out">>))
       \/ /\ Catch(Raised("getIgContainerStatus", PlainMessage))
          /\ UNCHANGED <<lastStatus, pollAttempt>>
    /\ UNCHANGED <<outsideFlow, kind, localVars, retryVars, pollSlept, fbVideoPromise,
                   deletedIds, serverVars, remoteVars>>

\* variant: the delete is issued whatever the upload produced
AfterCatchAwait_always(promise) == "vid_catch_delete"

\* variant: the delete is issued only for an upload that had already
\* finished when the first destination failed
AfterCatchAwait_onlyIfDoneAtCatch(promise) ==
    IF promise.state = "resolved" /\ uploadAtCatch = "resolved"
    THEN "vid_catch_delete" ELSE "vid_finally"

\* inner try of the catch block: a rejected upload skips the delete
AfterCatchAwait(promise) ==
    IF promise.state = "resolved" THEN "vid_catch_delete" ELSE "vid_finally"

\* variant: an error of the cleanup replaces the error being handled
PendingAfterCleanup_cleanupErrorWins(e, cleanupFailed, src) ==
    IF cleanupFailed THEN Raised(src, PlainMessage) ELSE e

\* the error pending after the inner try: its empty catch drops whatever
\* the await or the delete threw, `error` stays the one that was caught
PendingAfterCleanup(e, cleanupFailed, src) == e

\* catch block: const fbVideo = await fbVideoPromise
CatchAwaitUpload ==
    /\ pc = "vid_catch_await"
    /\ ~Blocked
    /\ pc' = AfterCatchAwait(fbVideoPromise)
    /\ error' = PendingAfterCleanup(error, fbVideoPromise.state = "rejected",
                                    "uploadFbVideoFromBuffer")
    /\ UNCHANGED <<outsideFlow, kind, log, localVars, retryVars, pollVars, uploadVars,
                   serverVars, remoteVars>>

\* catch block: deleteFbVideo(fbVideo.id); its error is ignored
DeleteFbVideo ==
    /\ pc = "vid_catch_delete"
    /\ Issue("deleteFbVideo")
    /\ deletedIds' = Append(deletedIds, fbVideoPromise.id)
    /\ \/ /\ fbVideos' = fbVideos \ {fbVideoPromise.id}
          /\ error' = PendingAfterCleanup(error, FALSE, "deleteFbVideo")
       \/ /\ UNCHANGED fbVideos
          /\ error' = PendingAfterCleanup(error, TRUE, "deleteFbVideo")
    /\ pc' = "vid_finally"
    /\ UNCHANGED <<outsideFlow, kind, localVars, retryVars, pollVars, fbVideoPromise,
                   uploadAtCatch, caught, serverVars, igPosts, fbPhotos, fbFeedPosts>>

\* upper- and lower-case letters of the messages
UpperChars == <<"C", "A", "R", "O", "U", "S", "E", "L">>
LowerChars == <<"c", "a", "r", "o", "u", "s", "e", "l">>

\* one character of msg.toLowerCase()
toLowerChar(c) ==
    IF \E k \in DOMAIN UpperChars : UpperChars[k] = c
    THEN LowerChars[CHOOSE k \in DOMAIN UpperChars : UpperChars[k] = c]
    ELSE c

\* msg.toLowerCase()
toLowerCase(msg) == [i \in DOMAIN msg |-> toLowerChar(msg[i])]

\* msg.includes(needle)
includes(msg, needle) ==
    \E i \in 1..(Len(msg) - Len(needle) + 1) :
       SubSeq(msg, i, i + Len(needle) - 1) = needle

\* the test of the catch block with the lower-casing left out
IsReelRejection_caseSensitive(msg) ==
    \/ includes(msg, <<"2", "2", "0", "7", "0", "8", "9">>)
    \/ includes(msg, LowerChars)

\* msg.includes('2207089') || msg.toLowerCase().includes('carousel')
IsReelRejection(msg) ==
    \/ includes(msg, <<"2", "2", "0", "7", "0", "8", "9">>)
    \/ includes(toLowerCase(msg), LowerChars)

\* the error the catch block throws: the guidance message for a message
\* holding '2207089' or 'carousel', else the error itself
Rethrown(e) ==
    IF IsReelRejection(e.msg)
    THEN [type |-> "reel_rejected", src |-> e.src, status |-> e.status,
          msg |-> <<"Instagram rejected the video as a Reel. (Original error: ">>
                    \o e.msg \o <<")">>,
          orig |-> e.type]
    ELSE e

\* finally block: await tempServer.close(); then the pending throw leaves
\* handleVideo, or control falls through to Step 7
FinallyClose ==
    /\ pc = "vid_finally"
    /\ Issue("close")
    /\ closeCalls' = closeCalls + 1
    /\ activeVideos' = Unregister(activeVideos)
    /\ UNCHANGED registrations
    /\ IF error = NoError
       THEN pc' = "vid_join" /\ UNCHANGED error
       ELSE Throw(Rethrown(error))
    /\ UNCHANGED <<outsideFlow, kind, localVars, retryVars, pollVars, uploadVars, remoteVars>>

\* the await of the success path with a cleanup-style empty catch around it
JoinFbVideo_swallowing ==
    /\ pc = "vid_join"
    /\ ~Blocked
    /\ pc' = "vid_permalink"
    /\ UNCHANGED <<outsideFlow, kind, log, error, localVars, retryVars, pollVars,
                   uploadVars, serverVars, remoteVars>>

\* Step 7: await fbVideoPromise on the success path: a rejection is thrown
JoinFbVideo ==
    /\ pc = "vid_join"
    /\ ~Blocked
    /\ IF fbVideoPromise.state = "resolved"
       THEN pc' = "vid_permalink" /\ UNCHANGED error
       ELSE Throw(Raised("uploadFbVideoFromBuffer", PlainMessage))
    /\ UNCHANGED <<outsideFlow, kind, log, localVars, retryVars, pollVars, uploadVars,
                   serverVars, remoteVars>>

\* ------------------------------------------------------ specification

Next ==
    \/ TryCreateIgImageContainer
    \/ DownloadMedia
    \/ ConvertImage
    \/ UploadFbPhotoFromBuffer
    \/ GetFbPhotoImages
    \/ CreateIgImageContainer
    \/ PublishIgContainer
    \/ RetrySleep
    \/ UploadFbPhotoFromUrl
    \/ CreateFbFeedPost
    \/ GetIgPermalink
    \/ ConvertVideo
    \/ StartTempVideoServer
    \/ StartFbVideoUpload
    \/ FbVideoUploadSettles
    \/ CreateIgReelContainer
    \/ PollSleep
    \/ GetIgContainerStatus
    \/ CatchAwaitUpload
    \/ DeleteFbVideo
    \/ FinallyClose
    \/ JoinFbVideo

Spec == Init /\ [][Next]_vars

\* every awaited call, sleep, transcoder run and the concurrent upload
\* eventually returns: a step that can be taken is eventually taken
FairSpec == Spec /\ WF_vars(Next)

Terminated == pc \in {"done", "failed"}

\* ------------------------------------------- shared-port range endpoint

\* longest buffer served
MaxTotal == 3

\* file names startTempVideoServer can draw: `${randomUUID()}.mp4`
FileNames == {"a.mp4", "b.mp4"}

TMP_VIDEO_PREFIX == "/tmp-video/"

\* the bytes of a buffer of length n registered under file name f
Buffer(f, n) == [i \in 1..n |-> (IF f = "a.mp4" THEN 10 ELSE 20) + i]

\* the decimal digits, as characters
DigitChars == <<"0", "1", "2", "3", "4", "5", "6", "7", "8", "9">>

\* \d of the regular expression
IsDigit(c) == \E d \in DOMAIN DigitChars : DigitChars[d] = c

DigitValue(c) == (CHOOSE d \in DOMAIN DigitChars : DigitChars[d] = c) - 1

RECURSIVE parseInt(_)
\* parseInt(digits, 10)
parseInt(ds) ==
    IF ds = <<>> THEN 0
    ELSE parseInt(SubSeq(ds, 1, Len(ds) - 1)) * 10 + DigitValue(ds[Len(ds)])

RECURSIVE NatToString(_)
\* total.toString() and the numbers of the template literals
NatToString(n) ==
    IF n < 0 THEN <<"-">> \o NatToString(0 - n)
    ELSE IF n < 10 THEN <<DigitChars[n + 1]>>
    ELSE NatToString(n \div 10) \o <<DigitChars[(n % 10) + 1]>>

\* digit strings of the Range headers of the requests
DigitStrings == { <<"0">>, <<"1">>, <<"2">>, <<"3">>, <<"0", "2">>, <<"1", "0">> }

\* Range header values, as character sequences (a unit with its "=" is kept
\* in one piece); <<>> is a request without the header
RangeHeaders ==
    {<<>>}
    \cup { <<"bytes=">> \o a \o <<"-">> \o b :
              a \in DigitStrings \cup {<<>>},
              b \in DigitStrings \cup {<<>>} }
    \cup { <<"bytes=", "0", "-", "0", ",", "2", "-", "2">>,
           <<"items=", "0", "-", "1">>,
           <<"bytes=", "0", "-", "1", "-">>,
           <<"0", "-", "1">>,
           <<" ", "bytes=", "0", "-", "1">> }

Methods == {"GET", "HEAD", "POST"}

\* request URLs, as the pieces of their path
Urls ==
    { <<TMP_VIDEO_PREFIX, f>> : f \in FileNames }
    \cup { <<TMP_VIDEO_PREFIX, "c.mp4">>,
           <<TMP_VIDEO_PREFIX, "a.mp4", "?download=1">>,
           <<"/base", TMP_VIDEO_PREFIX, "a.mp4">>,
           <<"/rest/", "workflows">> }

\* the requests the host server receives: the Range header varies on the
\* requests for one of the files
Requests ==
    [method : Methods, url : Urls, range : {<<>>}]
    \cup [method : {"GET", "HEAD"}, url : {<<TMP_VIDEO_PREFIX, "a.mp4">>},
          range : RangeHeaders]

\* listener lists the host server can have when the module is loaded
HostListenerLists == { <<>>, <<"n8n">>, <<"n8n", "metrics">> }

\* parseRange returns undefined
NoRange == [start |-> -1, end |-> -1]

\* variant: /^bytes=(\d*)-(\d*)$/, the start optional too
RangeMatch_optionalStart(header) ==
    LET dashes == { k \in 2..Len(header) :
                      /\ header[1] = "bytes="
                      /\ header[k] = "-"
                      /\ \A i \in 2..(k - 1) : IsDigit(header[i])
                      /\ \A i \in (k + 1)..Len(header) : IsDigit(header[i]) }
    IN IF dashes = {} THEN 0 ELSE CHOOSE k \in dashes : TRUE

\* header.match(/^bytes=(\d+)-(\d*)$/): the position of the dash, 0 for no match
RangeMatch(header) ==
    LET dashes == { k \in 3..Len(header) :
                      /\ header[1] = "bytes="
                      /\ header[k] = "-"
                      /\ \A i \in 2..(k - 1) : IsDigit(header[i])
                      /\ \A i \in (k + 1)..Len(header) : IsDigit(header[i]) }
    IN IF dashes = {} THEN 0 ELSE CHOOSE k \in dashes : TRUE

\* variant: a start equal to the length is let through
parseRange_startMayEqualTotal(header, total) ==
    LET k == RangeMatch(header)
        start == parseInt(SubSeq(header, 2, k - 1))
        end == IF k < Len(header) THEN parseInt(SubSeq(header, k + 1, Len(header)))
                                  ELSE total - 1
    IN IF k = 0 THEN NoRange
       ELSE IF start > end \/ start > total THEN NoRange
       ELSE [start |-> start, end |-> IF end < total - 1 THEN end ELSE total - 1]

\* parseRange(header, total)
parseRange(header, total) ==
    LET k == RangeMatch(header)
        start == parseInt(SubSeq(header, 2, k - 1))
        end == IF k < Len(header) THEN parseInt(SubSeq(header, k + 1, Len(header)))
                                  ELSE total - 1
    IN IF k = 0 THEN NoRange
       ELSE IF start > end \/ start >= total THEN NoRange
       ELSE [start |-> start, end |-> IF end < total - 1 THEN end ELSE total - 1]

\* buffer.subarray(start, end): the bytes at the offsets start..end-1, both
\* offsets clamped to the length of the buffer
subarray(buffer, start, end) ==
    LET lo == IF start < Len(buffer) THEN start ELSE Len(buffer)
        hi == IF end < Len(buffer) THEN end ELSE Len(buffer)
    IN [i \in 1..(hi - lo) |-> buffer[lo + i]]

\* serveBuffer with the Range header examined before the method
serveBuffer_rangeBeforeHead(method, rangeHeader, buffer) ==
    LET total == Len(buffer)
    IN IF rangeHeader # <<>> /\ parseRange(rangeHeader, total) = NoRange
       THEN [status |-> 416, contentType |-> "", contentLength |-> <<>>,
             contentRange |-> <<"bytes */">> \o NatToString(total),
             acceptRanges |-> "", connection |-> "", body |-> <<>>]
       ELSE [status |-> 200, contentType |-> "video/mp4",
             contentLength |-> NatToString(total), contentRange |-> <<>>,
             acceptRanges |-> "bytes", connection |-> "",
             body |-> IF method = "HEAD" THEN <<>> ELSE buffer]

\* serveBuffer(req, res, buffer): the response written
serveBuffer(method, rangeHeader, buffer) ==
    LET total == Len(buffer)
        range == parseRange(rangeHeader, total)
    IN IF method = "HEAD"
       THEN [status |-> 200, contentType |-> "video/mp4",
             contentLength |-> NatToString(total), contentRange |-> <<>>,
             acceptRanges |-> "bytes", connection |-> "", body |-> <<>>]
       ELSE IF rangeHeader # <<>>
       THEN IF range = NoRange
            THEN [status |-> 416, contentType |-> "",
                  contentLength |-> <<>>,
                  contentRange |-> <<"bytes */">> \o NatToString(total),
                  acceptRanges |-> "", connection |-> "", body |-> <<>>]
            ELSE [status |-> 206, contentType |-> "video/mp4",
                  contentLength |-> NatToString(range.end - range.start + 1),
                  contentRange |-> <<"bytes ">> \o NatToString(range.start)
                                     \o <<"-">> \o NatToString(range.end)
                                     \o <<"/">> \o NatToString(total),
                  acceptRanges |-> "bytes", connection |-> "",
                  body |-> subarray(buffer, range.start, range.end + 1)]
       ELSE [status |-> 200, contentType |-> "video/mp4",
             contentLength |-> NatToString(total), contentRange |-> <<>>,
             acceptRanges |-> "bytes", connection |-> "", body |-> buffer]

\* the variables of the publish flows, which the endpoint never touches
flowVars == <<kind, pc, log, error, localVars, retryVars, pollVars, uploadVars,
              registrations, closeCalls, remoteVars>>

\* what the shared-port endpoint never touches
\* base URLs of the instance: with and without trailing slashes, with and
\* without a path prefix
BaseUrls ==
    { RootBaseUrl,
      RootBaseUrl \o <<"/", "/">>,
      RootBaseUrl \o <<"/base">>,
      RootBaseUrl \o <<"/base", "/">> }

RECURSIVE stripTrailingSlashes(_)
\* baseUrl.replace(/\/+$/, '')
stripTrailingSlashes(url) ==
    IF url # <<>> /\ url[Len(url)] = "/"
    THEN stripTrailingSlashes(SubSeq(url, 1, Len(url) - 1))
    ELSE url

\* the url of the TempVideoServer returned for file f
ReturnedUrl(f) == stripTrailingSlashes(baseUrl) \o <<TMP_VIDEO_PREFIX, f>>

\* the request path of a URL: what follows its origin
PathOf(url) == Tail(url)

outsideServer == <<flowVars, dedicatedVars, captionVars, executeVars,
                   baseUrl>>

ServerInit ==
    /\ kind = "video"
    /\ FlowInit
    /\ \E found \in BOOLEAN, ls \in HostListenerLists :
          /\ ~found => ls = <<>>
          /\ HostLoaded(found, ls)
    /\ DedicatedIdle("range")
    /\ CaptionIdle
    /\ ExecuteIdle
    /\ baseUrl \in BaseUrls

\* variant: the flag is not consulted
InstallNeeded_always == TRUE

\* installInterceptor: if (interceptorInstalled) return
InstallNeeded == ~interceptorInstalled

\* installInterceptor(server), past the test of listeners.length
InstallInterceptor ==
    IF InstallNeeded
    THEN /\ originalHandler' = listeners[1]
         /\ priorListeners' = listeners
         /\ listeners' = <<"interceptor">>
         /\ installs' = installs + 1
         /\ interceptorInstalled' = TRUE
    ELSE UNCHANGED <<originalHandler, priorListeners, listeners, installs,
                     interceptorInstalled>>

\* startTempVideoServer(buffer, baseUrl), as the tempServer module runs it
ServerStart ==
    /\ \E f \in FileNames \ handles, n \in 0..MaxTotal :
          IF ~serverFound
          THEN /\ lastStart' = "rejected: no server"
               /\ UNCHANGED <<originalHandler, priorListeners, listeners, installs,
                              interceptorInstalled, activeVideos, videoBuffer, handles,
                              ownBuffer>>
          ELSE IF InstallNeeded /\ listeners = <<>>
          THEN /\ lastStart' = "rejected: no request handlers"
               /\ UNCHANGED <<originalHandler, priorListeners, listeners, installs,
                              interceptorInstalled, activeVideos, videoBuffer, handles,
                              ownBuffer>>
          ELSE /\ InstallInterceptor
               /\ activeVideos' = activeVideos \cup {f}
               /\ videoBuffer' = [g \in activeVideos \cup {f} |->
                                     IF g = f THEN Buffer(f, n) ELSE videoBuffer[g]]
               /\ handles' = handles \cup {f}
               /\ ownBuffer' = [g \in handles \cup {f} |->
                                   IF g = f THEN Buffer(f, n) ELSE ownBuffer[g]]
               /\ lastStart' = "resolved"
    /\ UNCHANGED <<outsideServer, serverFound, closedFiles, lastReq, lastRes,
                   servedBuffer, keysAtReq, deliveredTo>>

\* variant: close() empties the registry
KeysAfterDelete_none(keys, f) == keys \ keys

\* activeVideos.delete(filename): the keys left
KeysAfterDelete(keys, f) == keys \ {f}

\* close() of a TempVideoServer that was returned, any number of times
ServerClose ==
    /\ \E f \in handles :
          /\ activeVideos' = KeysAfterDelete(activeVideos, f)
          /\ videoBuffer' = [g \in KeysAfterDelete(activeVideos, f) |-> videoBuffer[g]]
          /\ closedFiles' = closedFiles \cup {f}
    /\ UNCHANGED <<outsideServer, serverFound, listeners, interceptorInstalled,
                   originalHandler, priorListeners, installs, handles, ownBuffer,
                   lastStart,
                   lastReq, lastRes, servedBuffer, keysAtReq, deliveredTo>>

\* req.url?.startsWith(TMP_VIDEO_PREFIX) && (GET || HEAD)
IsVideoRequest(req) ==
    /\ Len(req.url) >= 1
    /\ req.url[1] = TMP_VIDEO_PREFIX
    /\ req.method \in {"GET", "HEAD"}

\* activeVideos.get(req.url.slice(TMP_VIDEO_PREFIX.length)) finds a buffer
RegisteredFile(req) == Len(req.url) = 2 /\ req.url[2] \in activeVideos

\* a request arrives at the host server: handed to its listeners, that is,
\* to the wrapping listener once it is installed; the listeners run to
\* completion, one request at a time
Request ==
    /\ serverFound
    /\ lastReq = NoReq
    /\ \E req \in Requests :
          /\ lastReq' = req
          /\ keysAtReq' = activeVideos
          /\ IF ~interceptorInstalled
             THEN /\ deliveredTo' = listeners
                  /\ lastRes' = NoRes
                  /\ servedBuffer' = <<>>
             ELSE IF IsVideoRequest(req) /\ RegisteredFile(req)
             THEN /\ deliveredTo' = <<>>
                  /\ lastRes' = serveBuffer(req.method, req.range, videoBuffer[req.url[2]])
                  /\ servedBuffer' = videoBuffer[req.url[2]]
             ELSE /\ deliveredTo' = <<originalHandler>>
                  /\ lastRes' = NoRes
                  /\ servedBuffer' = <<>>
    /\ UNCHANGED <<outsideServer, activeVideos, serverFound, listeners,
                   interceptorInstalled, originalHandler, priorListeners, installs,
                   videoBuffer, handles, ownBuffer, closedFiles, lastStart>>

\* the listeners have returned (res.end() was called or the request was
\* handed on): the server is ready for the next request
RequestHandled ==
    /\ lastReq # NoReq
    /\ lastReq' = NoReq
    /\ lastRes' = NoRes
    /\ servedBuffer' = <<>>
    /\ keysAtReq' = {}
    /\ deliveredTo' = <<>>
    /\ UNCHANGED <<outsideServer, activeVideos, serverFound, listeners,
                   interceptorInstalled, originalHandler, priorListeners, installs,
                   videoBuffer, handles, ownBuffer, closedFiles, lastStart>>

ServerNext ==
    \/ ServerStart
    \/ ServerClose
    \/ Request
    \/ RequestHandled

ServerSpec == ServerInit /\ [][ServerNext]_vars

\* ------------------------------------------------ dedicated listener

\* connections a client can open to the dedicated listener
MaxConns == 2

\* servePath = `/${id}.mp4`
servePath == <<"/", "a.mp4">>

\* request URLs the dedicated listener receives
DedicatedUrls ==
    { servePath, <<"/", "a.mp4", "?download=1">>, <<"/", "c.mp4">>,
      <<TMP_VIDEO_PREFIX, "a.mp4">> }

DedicatedRequests ==
    [method : Methods, url : DedicatedUrls, range : {<<>>}]
    \cup [method : {"GET", "HEAD"}, url : {servePath}, range : RangeHeaders]

\* res.writeHead(404); res.end()
NotFound == [NoRes EXCEPT !.status = 404]

\* the request handler of the dedicated listener with Range support
rangeHandler(req, buffer) ==
    LET total == Len(buffer)
        range == parseRange(req.range, total)
    IN IF req.url # servePath \/ (req.method # "GET" /\ req.method # "HEAD")
       THEN NotFound
       ELSE IF req.method = "HEAD"
       THEN [status |-> 200, contentType |-> "video/mp4",
             contentLength |-> NatToString(total), contentRange |-> <<>>,
             acceptRanges |-> "bytes", connection |-> "keep-alive",
             body |-> <<>>]
       ELSE IF req.range # <<>>
       THEN IF range = NoRange
            THEN [status |-> 416, contentType |-> "",
                  contentLength |-> <<>>,
                  contentRange |-> <<"bytes */">> \o NatToString(total),
                  acceptRanges |-> "", connection |-> "", body |-> <<>>]
            ELSE [status |-> 206, contentType |-> "video/mp4",
                  contentLength |-> NatToString(range.end - range.start + 1),
                  contentRange |-> <<"bytes ">> \o NatToString(range.start)
                                     \o <<"-">> \o NatToString(range.end)
                                     \o <<"/">> \o NatToString(total),
                  acceptRanges |-> "bytes", connection |-> "keep-alive",
                  body |-> subarray(buffer, range.start, range.end + 1)]
       ELSE [status |-> 200, contentType |-> "video/mp4",
             contentLength |-> NatToString(total), contentRange |-> <<>>,
             acceptRanges |-> "bytes", connection |-> "keep-alive",
             body |-> buffer]

\* the request handler of the dedicated listener without Range support
plainHandler(req, buffer) ==
    IF req.url = servePath /\ (req.method = "GET" \/ req.method = "HEAD")
    THEN [status |-> 200, contentType |-> "video/mp4",
          contentLength |-> NatToString(Len(buffer)), contentRange |-> <<>>,
          acceptRanges |-> "bytes", connection |-> "",
          body |-> IF req.method = "GET" THEN buffer ELSE <<>>]
    ELSE NotFound

\* the handler http.createServer was given
DedicatedHandler(req, buffer) ==
    IF dVariant = "range" THEN rangeHandler(req, buffer)
                          ELSE plainHandler(req, buffer)

DedicatedInit ==
    /\ kind = "video"
    /\ FlowInit
    /\ HostLoaded(TRUE, <<"n8n">>)
    /\ \E v \in {"range", "plain"} : DedicatedIdle(v)
    /\ CaptionIdle
    /\ ExecuteIdle
    /\ baseUrl = RootBaseUrl

\* what the dedicated listener never touches
outsideDedicated == <<flowVars, hostVars, activeVideos, captionVars,
                      executeVars, baseUrl>>

\* startTempVideoServer(buffer, baseUrl, port): createServer and listen; the
\* 'error' event (port in use) rejects
DedicatedStart ==
    /\ dState = "none"
    /\ \/ \E n \in 0..MaxTotal :
            /\ dBuffer' = Buffer("a.mp4", n)
            /\ dState' = "listening"
       \/ /\ dState' = "failed"
          /\ UNCHANGED dBuffer
    /\ UNCHANGED <<outsideDedicated, dVariant, dConns, dCloseResolved, dReq, dRes,
                   dReqAfterClose>>

\* a client opens a connection: accepted only while the server listens
Connect ==
    /\ dState = "listening"
    /\ \E c \in (1..MaxConns) \ dConns : dConns' = dConns \cup {c}
    /\ UNCHANGED <<outsideDedicated, dVariant, dState, dBuffer, dCloseResolved,
                   dReq, dRes, dReqAfterClose>>

\* the server once a connection set has changed: server.close() completes
\* when the last connection has ended
StateAfter(state, conns) ==
    IF state = "closing" /\ conns = {} THEN "closed" ELSE state

\* a connection ends
Disconnect ==
    /\ \E c \in dConns :
          /\ dConns' = dConns \ {c}
          /\ dState' = StateAfter(dState, dConns \ {c})
    /\ UNCHANGED <<outsideDedicated, dVariant, dBuffer, dCloseResolved, dReq, dRes,
                   dReqAfterClose>>

\* a request arrives on an open connection and the handler answers it; the
\* connection is kept alive
DedicatedRequest ==
    /\ dConns # {}
    /\ dReq = NoReq
    /\ \E req \in DedicatedRequests :
          /\ dReq' = req
          /\ dRes' = DedicatedHandler(req, dBuffer)
    /\ dReqAfterClose' = dCloseResolved
    /\ UNCHANGED <<outsideDedicated, dVariant, dState, dBuffer, dConns,
                   dCloseResolved>>

\* the handler has returned: the connection waits for its next request
DedicatedRequestHandled ==
    /\ dReq # NoReq
    /\ dReq' = NoReq
    /\ dRes' = NoRes
    /\ dReqAfterClose' = FALSE
    /\ UNCHANGED <<outsideDedicated, dVariant, dState, dBuffer, dConns,
                   dCloseResolved>>

\* close(): server.close(() => res()) stops the listening; the open
\* connections are kept, or, with a runtime that ends idle connections on
\* close, the ones without a request in progress are ended
DedicatedClose ==
    /\ dState = "listening"
    /\ \E kept \in {dConns, {}} :
          /\ dConns' = kept
          /\ dState' = StateAfter("closing", kept)
    /\ UNCHANGED <<outsideDedicated, dVariant, dBuffer, dCloseResolved, dReq, dRes,
                   dReqAfterClose>>

\* the promise of close() resolves: by the callback of server.close, or by
\* the timer after 2000 ms, which ends no connection
DedicatedCloseResolves ==
    /\ dState \in {"closing", "closed"}
    /\ ~dCloseResolved
    /\ dCloseResolved' = TRUE
    /\ UNCHANGED <<outsideDedicated, dVariant, dState, dBuffer, dConns, dReq, dRes,
                   dReqAfterClose>>

DedicatedNext ==
    \/ DedicatedStart
    \/ Connect
    \/ Disconnect
    \/ DedicatedRequest
    \/ DedicatedRequestHandled
    \/ DedicatedClose
    \/ DedicatedCloseResolves

DedicatedSpec == DedicatedInit /\ [][DedicatedNext]_vars

\* ------------------------------------------------ caption formatting

MaxCaption == 3
MaxSuffix == 4
MaxApplications == 2

\* the characters of captions and suffixes: a letter and the newline
Chars == {"a", "\n"}

\* the strings of at most n characters
Strings(n) == UNION { [1..k -> Chars] : k \in 0..n }

\* str.endsWith(suffix) tested anywhere in str
endsWith_anywhere(str, suffix) == includes(str, suffix)

\* str.endsWith(suffix)
endsWith(str, suffix) ==
    /\ Len(suffix) <= Len(str)
    /\ SubSeq(str, Len(str) - Len(suffix) + 1, Len(str)) = suffix

\* the length of the run of newlines str starts with
LeadingNewlines(str) ==
    IF \E k \in 1..Len(str) : str[k] # "\n"
    THEN (CHOOSE k \in 1..Len(str) :
             str[k] # "\n" /\ \A i \in 1..(k - 1) : str[i] = "\n") - 1
    ELSE Len(str)

RECURSIVE replaceNewlineRuns(_)
\* str.replace(/\n{3,}/g, '\n\n')
replaceNewlineRuns(str) ==
    IF str = <<>> THEN <<>>
    ELSE LET run == LeadingNewlines(str)
         IN IF run >= 3
            THEN <<"\n", "\n">>
                    \o replaceNewlineRuns(SubSeq(str, run + 1, Len(str)))
            ELSE IF run >= 1
            THEN SubSeq(str, 1, run)
                    \o replaceNewlineRuns(SubSeq(str, run + 1, Len(str)))
            ELSE <<str[1]>> \o replaceNewlineRuns(Tail(str))

prepareCaption(c, suffix) ==
    LET joined == IF suffix # <<>> /\ ~endsWith(c, suffix)
                  THEN c \o <<"\n">> \o suffix
                  ELSE c
    IN replaceNewlineRuns(joined)

\* the parameters of one item: any caption, any suffix
CaptionInit ==
    /\ kind = "image"
    /\ FlowInit
    /\ HostLoaded(TRUE, <<"n8n">>)
    /\ DedicatedIdle("range")
    /\ caption \in Strings(MaxCaption)
    /\ hashSuffix \in Strings(MaxSuffix)
    /\ prepared = <<>>
    /\ captionCalls = 0
    /\ ExecuteIdle
    /\ baseUrl = RootBaseUrl

\* what prepareCaption never touches
outsideCaption == <<flowVars, hostVars, activeVideos, dedicatedVars,
                    executeVars, baseUrl>>

\* const caption = prepareCaption(params.caption, params.hashSuffix)
PrepareCaption ==
    /\ captionCalls = 0
    /\ prepared' = prepareCaption(caption, hashSuffix)
    /\ captionCalls' = 1
    /\ UNCHANGED <<outsideCaption, caption, hashSuffix>>

\* the value returned is formatted again with the same suffix
PrepareCaptionAgain ==
    /\ captionCalls \in 1..(MaxApplications - 1)
    /\ caption' = prepared
    /\ prepared' = prepareCaption(prepared, hashSuffix)
    /\ captionCalls' = captionCalls + 1
    /\ UNCHANGED <<outsideCaption, hashSuffix>>

CaptionNext == PrepareCaption \/ PrepareCaptionAgain

CaptionSpec == CaptionInit /\ [][CaptionNext]_vars

\* ---------------------------------------------------- MetaPost.execute

MaxItems == 3

\* the input items, by media type
ItemLists == UNION { [1..n -> {"image", "video"}] : n \in 0..MaxItems }

\* execute is called with some items, continue-on-fail on or off
ExecuteInit ==
    /\ kind = "image"
    /\ FlowInit
    /\ HostLoaded(TRUE, <<"n8n">>)
    /\ DedicatedIdle("range")
    /\ CaptionIdle
    /\ items \in ItemLists
    /\ continueOnFail \in BOOLEAN
    /\ itemIndex = 0
    /\ execPc = "loop"
    /\ itemError = ""
    /\ returnData = <<>>
    /\ execLog = <<>>
    /\ outcomes = <<>>
    /\ baseUrl = RootBaseUrl

\* what execute itself never touches
outsideExecute == <<flowVars, hostVars, activeVideos, dedicatedVars,
                    captionVars, baseUrl>>

\* a call of execute for the current item
ExecIssue(call) == execLog' = Append(execLog, <<call, itemIndex>>)

\* the try block of the current item throws: control enters the catch block
ExecThrow(src) ==
    /\ itemError' = src
    /\ outcomes' = Append(outcomes, "failed")
    /\ execPc' = "catch"

\* for (...; i < items.length; ...): getCredentials, readParams and
\* prepareCaption of the next item, or return [returnData]
LoopStep ==
    /\ execPc = "loop"
    /\ IF itemIndex < Len(items)
       THEN /\ ExecIssue("getCredentials")
            /\ \/ /\ execPc' = "token"
                  /\ UNCHANGED <<itemError, outcomes>>
               \/ ExecThrow("getCredentials")
               \/ ExecThrow("readParams")
       ELSE /\ execPc' = "returned"
            /\ UNCHANGED <<execLog, itemError, outcomes>>
    /\ UNCHANGED <<outsideExecute, items, continueOnFail, itemIndex, returnData>>

\* pageTokenResp = await graphApi.getPageAccessToken(...), inside the loop
GetPageAccessToken ==
    /\ execPc = "token"
    /\ ExecIssue("getPageAccessToken")
    /\ \/ /\ execPc' = "handle"
          /\ UNCHANGED <<itemError, outcomes>>
       \/ ExecThrow("getPageAccessToken")
    /\ UNCHANGED <<outsideExecute, items, continueOnFail, itemIndex, returnData>>

\* the loop staying on the item whose error entry was pushed
AfterErrorEntry_sameItem(i) == i

\* the item the loop turns to after the catch block pushed an error entry
AfterErrorEntry(i) == i + 1

\* result = await handleImage(...) / handleVideo(...); returnData.push
HandleItem ==
    /\ execPc = "handle"
    /\ ExecIssue(IF items[itemIndex + 1] = "image" THEN "handleImage"
                                                    ELSE "handleVideo")
    /\ \/ /\ returnData' = Append(returnData,
                              [json |-> "result", pairedItem |-> itemIndex])
          /\ outcomes' = Append(outcomes, "ok")
          /\ itemIndex' = itemIndex + 1
          /\ execPc' = "loop"
          /\ UNCHANGED itemError
       \/ /\ ExecThrow(IF items[itemIndex + 1] = "image" THEN "handleImage"
                                                         ELSE "handleVideo")
          /\ UNCHANGED <<returnData, itemIndex>>
    /\ UNCHANGED <<outsideExecute, items, continueOnFail>>

\* catch (error): push an error entry, or throw NodeOperationError
CatchItem ==
    /\ execPc = "catch"
    /\ IF continueOnFail
       THEN /\ returnData' = Append(returnData,
                                [json |-> "error", pairedItem |-> itemIndex])
            /\ itemIndex' = AfterErrorEntry(itemIndex)
            /\ execPc' = "loop"
       ELSE /\ execPc' = "thrown"
            /\ UNCHANGED <<returnData, itemIndex>>
    /\ UNCHANGED <<outsideExecute, items, continueOnFail, itemError, execLog,
                   outcomes>>

ExecuteNext ==
    \/ LoopStep
    \/ GetPageAccessToken
    \/ HandleItem
    \/ CatchItem

ExecuteSpec == ExecuteInit /\ [][ExecuteNext]_vars

\* ------------------------------------------------------------ helpers

\* number of calls of `call` issued so far
Count(call) == Cardinality({i \in DOMAIN log : log[i] = call})

RECURSIVE SumSeq(_)
SumSeq(q) == IF q = <<>> THEN 0 ELSE Head(q) + SumSeq(Tail(q))

\* the first destination carries the post
IgCarries == igPosts # {}

\* the second destination carries the post
FbCarries == IF kind = "image" THEN fbFeedPosts # {} ELSE fbVideos # {}

\* the catch block of handleVideo has been entered
CatchEntered == uploadAtCatch # "none"

\* the error of the publish loop came from a raising publish call
PublishRaised ==
    /\ error.src = "publishIgContainer"
    /\ error.type = "raised" \/ error.orig = "raised"

\* ------------------------------------------------------------- claims

\* C1: when a publish call terminates, with a result or with an error,
\* either both destinations carry the post or neither does.
C1_BothOrNeither == Terminated => (IgCarries <=> FbCarries)

\* C2, as stated: a first-destination failure after the upload produced an
\* id gives exactly one delete call for that id; a failure at a moment at
\* which no id exists yet gives zero delete calls.
C2_DeleteByStateAtFailure ==
    (kind = "video" /\ pc = "failed" /\ CatchEntered) =>
        deletedIds = (IF uploadAtCatch = "resolved"
                      THEN <<fbVideoPromise.id>> ELSE <<>>)

\* C2, amended: after a first-destination failure exactly one delete call
\* is issued, for the uploaded id, if the awaited upload resolves with an
\* id, before or after the failure; zero delete calls if it rejects. No
\* delete is issued before the catch block has awaited the upload.
C2_DeleteByUploadOutcome ==
    /\ Len(deletedIds) <= 1
    /\ (kind = "video" /\ CatchEntered /\ pc \in {"vid_finally", "failed"}) =>
           deletedIds = (IF fbVideoPromise.state = "resolved"
                         THEN <<fbVideoPromise.id>> ELSE <<>>)
    /\ (~CatchEntered \/ pc = "vid_catch_await") => deletedIds = <<>>

\* the upload was still running when the first destination failed, and its
\* id was deleted afterwards
C2_Witness ==
    /\ pc = "failed"
    /\ uploadAtCatch = "pending"
    /\ fbVideoPromise.state = "resolved"
    /\ deletedIds = <<fbVideoPromise.id>>

\* C3: once handleVideo has registered the buffer, close() is called
\* exactly once on every exit path, and the file is not registered once
\* the call has returned or thrown.
C3_CloseExactlyOnce ==
    /\ closeCalls <= registrations
    /\ registrations <= 1
    /\ (Terminated /\ registrations = 1) =>
           (closeCalls = 1 /\ VideoFile \notin activeVideos)
    /\ (registrations = 1 /\ closeCalls = 0) => VideoFile \in activeVideos

\* handleVideo returned its result after one close()
C3_Witness ==
    /\ kind = "video"
    /\ pc = "done"
    /\ registrations = 1
    /\ closeCalls = 1
    /\ activeVideos = {}

\* C4: k 5xx responses (0 <= k <= 5) and then a 2xx response with an id:
\* the loop returns that id after exactly k+1 calls, having slept the
\* first k delays of 1000, 2000, 3000, 4000, 5000 in that order.
C4_RetryThenSuccess ==
    (/\ Len(publishArgs) > 0
     /\ lastResp.statusCode \in 200..299
     /\ lastResp.id # NoId
     /\ retriedOnly5xx) =>
        /\ igPostId = lastResp.id
        /\ lastResp.id \in igPosts
        /\ Len(publishArgs) <= 6
        /\ retrySlept = SubSeq(<<1000, 2000, 3000, 4000, 5000>>, 1,
                                Len(publishArgs) - 1)
        /\ pc \notin {"publish", "publish_backoff"}
        /\ ~PublishRaised

\* five 5xx responses, then a 2xx with an id, all five delays slept
C4_Witness ==
    /\ retriedOnly5xx
    /\ Len(publishArgs) = 6
    /\ lastResp.statusCode = 200
    /\ igPostId = lastResp.id
    /\ igPostId # NoId
    /\ retrySlept = <<1000, 2000, 3000, 4000, 5000>>

\* C5: a response with a status in [400,500) fails the loop at once: no
\* sleep and no further publish call follow it, on whichever attempt.
C5_ClientErrorNotRetried ==
    (Len(publishArgs) > 0 /\ lastResp.statusCode \in 400..499) =>
        /\ pc \notin {"publish", "publish_backoff"}
        /\ Len(retrySlept) = Len(publishArgs) - 1
        /\ igPostId = NoId
        /\ error.src = "publishIgContainer"
        /\ error.status = lastResp.statusCode
        /\ ~PublishRaised

\* a 400 on the third attempt ended the loop
C5_Witness ==
    /\ lastResp.statusCode = 400
    /\ Len(publishArgs) = 3
    /\ Len(retrySlept) = 2
    /\ pc = "failed"

\* C6: at most 6 publish calls and at most 15000 ms of backoff; when all
\* six calls return a transient response the loop fails with the detail of
\* the last response.
C6_BoundedRetry ==
    /\ Len(publishArgs) <= 6
    /\ SumSeq(retrySlept) <= 15000
    /\ Len(retrySlept) <= 5
    /\ (/\ Len(publishArgs) = 6
        /\ ~PublishRaised
        /\ ~(lastResp.statusCode \in 200..299 /\ lastResp.id # NoId)) =>
           /\ pc \notin {"publish", "publish_backoff"}
           /\ error.src = "publishIgContainer"
           /\ error.status = lastResp.statusCode
           /\ includes(error.msg, formatIgApiError(lastResp).msg)
           /\ igPostId = NoId

\* six transient responses, the last one a 503, after 15000 ms of backoff
C6_Witness ==
    /\ Len(publishArgs) = 6
    /\ SumSeq(retrySlept) = 15000
    /\ retriedOnly5xx
    /\ lastResp.statusCode = 503
    /\ error = formatIgApiError(lastResp)

\* C7: a publish call that raises (timeout, network error) is retried
\* with the same backoff sequence like a 5xx response: the loop gives up on
\* a raising call only when its retries are used up.
C7_RaiseIsRetried == PublishRaised => Len(publishArgs) = 6

\* the first container-create of handleImage returned a failed response
FirstCreateFailed ==
    /\ kind = "image"
    /\ containerResp # NoCreateResp
    /\ ~(containerResp.statusCode \in 200..299 /\ containerResp.id # NoId)

\* the header text or the body message holds the signature
CarriesSignature(resp) ==
    \/ Includes(resp.wwwAuth, <<"Only photo or", "video can be accepted">>)
    \/ Includes(resp.bodyMsg, <<"Only photo or", "video can be accepted">>)

\* the header text, a space and the body message, joined, hold the signature
JoinedTextHasSignature(resp) ==
    Includes(resp.wwwAuth \o resp.bodyMsg, <<"Only photo or", "video can be accepted">>)

\* the calls of the fallback cycle, in the order of the code
FallbackCalls ==
    <<"tryCreateIgImageContainer", "downloadMedia", "convertImage",
      "uploadFbPhotoFromBuffer", "getFbPhotoImages", "createIgImageContainer">>

Min(a, b) == IF a < b THEN a ELSE b

\* C8, as stated: a failed first response with the signature in the header
\* or in the body gives exactly one download, one transcode, one buffer
\* upload and one second container-create; one without it fails at once
\* with zero download, transcoder and second-destination calls.
C8_ExactlyOneCycle ==
    (FirstCreateFailed /\ Terminated) =>
        IF CarriesSignature(containerResp)
        THEN /\ Count("downloadMedia") = 1
             /\ Count("convertImage") = 1
             /\ Count("uploadFbPhotoFromBuffer") = 1
             /\ Count("createIgImageContainer") = 1
        ELSE log = <<"tryCreateIgImageContainer">>

\* C8, amended: a failed first response whose header text, body message or
\* the two joined by a space hold the signature starts the fallback cycle
\* once: exactly one download, then at most one transcode, one buffer
\* upload and one second container-create, each only after the step before
\* it succeeded, and all exactly once when the flow reaches publish; a
\* failed response whose joined text lacks the signature fails at once,
\* with no call but the first container-create.
C8_FallbackCycle ==
    FirstCreateFailed =>
        IF JoinedTextHasSignature(containerResp) \/ CarriesSignature(containerResp)
        THEN /\ pc # "failed" \/ Len(log) >= 2
             /\ SubSeq(log, 1, Min(Len(log), 6))
                    = SubSeq(FallbackCalls, 1, Min(Len(log), 6))
             /\ \A c \in {"downloadMedia", "convertImage", "uploadFbPhotoFromBuffer",
                          "createIgImageContainer", "tryCreateIgImageContainer"} :
                    Count(c) <= 1
             /\ Terminated => Count("downloadMedia") = 1
             /\ Count("publishIgContainer") > 0 =>
                    /\ Count("convertImage") = 1
                    /\ Count("uploadFbPhotoFromBuffer") = 1
                    /\ Count("createIgImageContainer") = 1
        ELSE /\ pc = "failed"
             /\ error.type = "container_create_failed"
             /\ log = <<"tryCreateIgImageContainer">>
             /\ fbPhotos = {}

\* the signature came in the header alone and the cycle ran once, to the end
C8_Witness ==
    /\ FirstCreateFailed
    /\ Includes(containerResp.wwwAuth, FormatSignature)
    /\ containerResp.bodyMsg = <<>>
    /\ pc = "done"
    /\ Count("downloadMedia") = 1
    /\ Count("convertImage") = 1
    /\ Count("uploadFbPhotoFromBuffer") = 1
    /\ Count("createIgImageContainer") = 1

\* position of the first / last call of `call` in the log
FirstIndex(call) == CHOOSE i \in DOMAIN log :
    log[i] = call /\ \A j \in 1..(i - 1) : log[j] # call

LastIndex(call) == CHOOSE i \in DOMAIN log :
    log[i] = call /\ \A j \in (i + 1)..Len(log) : log[j] # call

\* C9: in the video flow a publish call for a container is issued only
\* after a status poll of that container returned FINISHED; after a poll
\* returning ERROR or EXPIRED, or 30 polls without FINISHED, no publish
\* call is ever issued.
C9_PublishOnlyAfterFinished ==
    kind = "video" =>
        /\ (Len(publishArgs) > 0 \/ pc \in {"publish", "publish_backoff"}) =>
              /\ lastStatus = "FINISHED"
              /\ polledIds = {igContainerId}
              /\ \A i \in DOMAIN publishArgs : publishArgs[i] = igContainerId
        /\ Len(publishArgs) > 0 =>
              LastIndex("getIgContainerStatus") < FirstIndex("publishIgContainer")
        /\ (lastStatus \in {"ERROR", "EXPIRED"} \/ pollAttempt >= 30) =>
              /\ Len(publishArgs) = 0
              /\ pc \notin {"vid_poll", "vid_poll_status", "publish", "publish_backoff"}
              /\ error # NoError

\* the 30th poll returned FINISHED and the container was published
C9_Witness ==
    /\ kind = "video"
    /\ pollAttempt = 29
    /\ lastStatus = "FINISHED"
    /\ Len(publishArgs) > 0
    /\ igPostId # NoId

\* C10: pollIgContainer issues at most 30 status calls, each preceded by a
\* 10000 ms wait (at most 300000 ms in all); 30 calls without FINISHED,
\* ERROR or EXPIRED end in the timeout error.
C10_BoundedPolling ==
    /\ Count("getIgContainerStatus") <= 30
    /\ \A i \in DOMAIN pollSlept : pollSlept[i] = 10000
    /\ SumSeq(pollSlept) <= 300000
    /\ Len(pollSlept) =
          Count("getIgContainerStatus") + (IF pc = "vid_poll_status" THEN 1 ELSE 0)
    /\ \A i \in DOMAIN log :
          log[i] = "getIgContainerStatus" => (i > 1 /\ log[i - 1] = "sleep")
    /\ pollAttempt <= Count("getIgContainerStatus")
    /\ pollAttempt = 30 =>
          /\ error.type = "timeout"
          /\ CatchEntered
          /\ Len(publishArgs) = 0
    /\ error.type = "timeout" =>
          (pollAttempt = 30 /\ lastStatus \in {"IN_PROGRESS", "PUBLISHED"})

\* 30 polls, none terminal: the timeout error after 300000 ms of waiting
C10_Witness ==
    /\ pc = "failed"
    /\ error.type = "timeout"
    /\ Count("getIgContainerStatus") = 30
    /\ SumSeq(pollSlept) = 300000

\* C11: a status poll returning ERROR or EXPIRED ends the polling at once
\* (no further wait, status call or publish call) with the
\* processing-failure error; the timeout error is raised only after 30
\* polls none of which was ERROR or EXPIRED, and the processing-failure
\* error only after a poll that was.
C11_FailureVsTimeout ==
    /\ lastStatus \in {"ERROR", "EXPIRED"} =>
          /\ error.type = "processing_failed"
          /\ error.src = "pollIgContainer"
          /\ pc \in {"vid_catch_await", "vid_catch_delete", "vid_finally", "failed"}
          /\ Count("getIgContainerStatus") = pollAttempt + 1
          /\ \A j \in (LastIndex("getIgContainerStatus") + 1)..Len(log) :
                log[j] \notin {"sleep", "getIgContainerStatus", "publishIgContainer"}
    /\ error.type = "processing_failed" =>
          (lastStatus \in {"ERROR", "EXPIRED"} /\ pollAttempt < 30)
    /\ error.type = "timeout" =>
          (lastStatus \notin {"ERROR", "EXPIRED", "FINISHED"} /\ pollAttempt = 30)

\* the third poll returned EXPIRED and handleVideo has thrown
C11_Witness ==
    /\ pc = "failed"
    /\ lastStatus = "EXPIRED"
    /\ pollAttempt = 2
    /\ Count("getIgContainerStatus") = 3
    /\ error.type = "processing_failed"

\* C12: once the catch block of handleVideo has been entered, the error
\* handleVideo throws is the error that block caught, or the guidance error
\* written from it, whatever the awaited upload and the delete did; it is
\* never an error of the upload or of the delete.
C12_OriginalFailureThrown ==
    CatchEntered =>
        /\ caught # NoError
        /\ caught.src \in {"createIgReelContainer", "pollIgContainer",
                           "getIgContainerStatus", "publishIgContainer"}
        /\ pc \in {"vid_catch_await", "vid_catch_delete", "vid_finally"} =>
              error = caught
        /\ pc = "failed" =>
              /\ error = Rethrown(caught)
              /\ error.src \notin {"uploadFbVideoFromBuffer", "deleteFbVideo"}
              /\ ~IsReelRejection(caught.msg) => error = caught
        /\ pc \in {"vid_catch_await", "vid_catch_delete", "vid_finally", "failed"}

\* the delete was issued and failed (the video is still there), and the
\* guidance error written from the caught one has been thrown
C12_Witness ==
    /\ pc = "failed"
    /\ CatchEntered
    /\ Len(deletedIds) = 1
    /\ deletedIds[1] \in fbVideos
    /\ error.type = "reel_rejected"
    /\ error.orig = caught.type

\* C13: the upload is started before the container is created, and the
\* container, poll and publish steps never wait for it: each of them can be
\* taken whether the upload is pending, resolved or rejected, and they are
\* issued in the same order; handleVideo waits for the upload only at the
\* await of the catch block and at the await after the finally block.
C13_UploadNotAwaitedInIgLeg ==
    kind = "video" =>
        /\ \A i \in DOMAIN log :
              /\ log[i] = "createIgReelContainer" =>
                    (i = 5 /\ log[4] = "uploadFbVideoFromBuffer")
              /\ log[i] = "getIgContainerStatus" =>
                    (i > 6 /\ log[5] = "createIgReelContainer" /\ log[i - 1] = "sleep")
              /\ log[i] = "publishIgContainer" =>
                    /\ log[5] = "createIgReelContainer"
                    /\ \A j \in i..Len(log) : log[j] # "getIgContainerStatus"
        /\ Count("uploadFbVideoFromBuffer") <= 1
        /\ pc = "vid_create" => ENABLED CreateIgReelContainer
        /\ (pc = "vid_poll" /\ pollAttempt < 30) => ENABLED PollSleep
        /\ pc = "vid_poll_status" => ENABLED GetIgContainerStatus
        /\ pc = "publish" => ENABLED PublishIgContainer
        /\ pc = "publish_backoff" => ENABLED RetrySleep
        /\ pc = "vid_catch_await" =>
              (ENABLED CatchAwaitUpload <=> fbVideoPromise.state # "pending")
        /\ pc = "vid_join" =>
              (ENABLED JoinFbVideo <=> fbVideoPromise.state # "pending")
        /\ pc \in {"vid_finally", "vid_catch_delete", "vid_permalink"} =>
              ENABLED (FinallyClose \/ DeleteFbVideo \/ GetIgPermalink)

\* the upload was rejected while the publish loop runs on: the rejection
\* has not been consumed and the next publish call is still to come
C13_Witness ==
    /\ kind = "video"
    /\ pc = "publish_backoff"
    /\ fbVideoPromise.state = "rejected"
    /\ Len(publishArgs) = 2
    /\ error = NoError

\* handleImage has thrown after its publish step returned a post id
ImageFailedAfterPublish == kind = "image" /\ pc = "failed" /\ igPostId # NoId

\* C14: when handleImage fails after the publish step, what the call has
\* left on the remote side is at most one unpublished photo and no visible
\* post on either destination.
C14_OnlyUnpublishedPhotoLeft ==
    ImageFailedAfterPublish =>
        /\ Cardinality(fbPhotos) <= 1
        /\ igPosts = {}
        /\ fbFeedPosts = {}

\* C15: a result is returned only when the publish call returned a post id
\* and the second destination returned an id too (the feed post of the image
\* flow, the uploaded video of the video flow); the result carries exactly
\* these ids, and no result is returned by a call that has failed.
C15_ResultOnlyIfBothLegs ==
    /\ pc = "done" =>
          /\ error = NoError
          /\ igPostId # NoId
          /\ lastResp.id = igPostId
          /\ igPostId \in igPosts
          /\ result.instagram_post_id = igPostId
          /\ result.instagram_permalink = igPostId
          /\ kind = "image" =>
                /\ result.facebook_post_id.id # NoId
                /\ \E fp \in fbFeedPosts : fp.id = result.facebook_post_id.id
                /\ Count("createFbFeedPost") = 1
                /\ result.facebook_photo_id = fbPhotoId
                /\ fbPhotoId \in fbPhotos
                /\ result.facebook_video_id = NoId
          /\ kind = "video" =>
                /\ fbVideoPromise.state = "resolved"
                /\ fbVideoPromise.id # NoId
                /\ fbVideoPromise.id \in fbVideos
                /\ result.facebook_video_id = fbVideoPromise.id
                /\ result.facebook_post_id = FbVideoPostId(fbVideoPromise.id)
                /\ result.facebook_photo_id = NoId
                /\ deletedIds = <<>>
    /\ pc = "failed" =>
          (result.instagram_post_id = NoId /\ result.instagram_permalink = NoId)

\* handleVideo has returned after a retried publish, with both ids
C15_Witness ==
    /\ pc = "done"
    /\ kind = "video"
    /\ attempt = 1
    /\ result.instagram_post_id \in Ids
    /\ result.facebook_video_id \in Ids

\* C16: handleImage issues at most two container-create calls (one with the
\* original URL, one with the CDN URL), at most one download, one transcode
\* and one buffer upload; a failure of the second container-create is the
\* last call of the invocation and is thrown to the caller.
C16_SecondCreateNotRetried ==
    kind = "image" =>
        /\ Count("tryCreateIgImageContainer") <= 1
        /\ Count("createIgImageContainer") <= 1
        /\ Count("downloadMedia") <= 1
        /\ Count("convertImage") <= 1
        /\ Count("uploadFbPhotoFromBuffer") <= 1
        /\ (Count("createIgImageContainer") = 1 /\ igContainerId = NoId) =>
              /\ pc = "failed"
              /\ error = Raised("createIgImageContainer", PlainMessage)
              /\ log[Len(log)] = "createIgImageContainer"
              /\ Len(publishArgs) = 0
              /\ result = NoResult

\* the second container-create failed after the whole fallback ran
C16_Witness ==
    /\ pc = "failed"
    /\ error.src = "createIgImageContainer"
    /\ Count("tryCreateIgImageContainer") = 1
    /\ Count("convertImage") = 1
    /\ Count("uploadFbPhotoFromBuffer") = 1
    /\ Cardinality(fbPhotos) = 1

\* C17: when handleImage returns, exactly one photo upload was issued: the
\* buffer upload if the fallback ran, the by-URL upload otherwise; the one
\* feed post attaches the id that upload returned and the result reports
\* that id as facebook_photo_id.
C17_ExactlyOnePhotoAsset ==
    (kind = "image" /\ pc = "done") =>
        /\ Count("uploadFbPhotoFromBuffer") + Count("uploadFbPhotoFromUrl") = 1
        /\ Count("uploadFbPhotoFromBuffer") = 1 <=> Count("convertImage") = 1
        /\ Count("uploadFbPhotoFromUrl") = 1 <=> IsCreateSuccess(containerResp)
        /\ fbPhotoId # NoId
        /\ fbPhotos = {fbPhotoId}
        /\ Cardinality(fbFeedPosts) = 1
        /\ \A fp \in fbFeedPosts : fp.media_fbid = fbPhotoId
        /\ result.facebook_photo_id = fbPhotoId

\* handleImage has returned after the fallback: the buffer upload is the
\* only upload
C17_Witness ==
    /\ kind = "image"
    /\ pc = "done"
    /\ Count("uploadFbPhotoFromBuffer") = 1
    /\ Count("uploadFbPhotoFromUrl") = 0
    /\ result.facebook_photo_id \in Ids

\* the endpoint answered the last request with a registered buffer
Served == lastRes # NoRes

\* the Range header "bytes=<s>-<e>", the end left out when e < 0
BytesRange(s, e) ==
    <<"bytes=">> \o NatToString(s) \o <<"-">>
                 \o (IF e < 0 THEN <<>> ELSE NatToString(e))

ListenersBeforeInstall ==
    IF interceptorInstalled THEN priorListeners ELSE listeners

\* C19: a request the endpoint does not answer itself (another method,
\* another path, a file name that is not registered) is handed to every
\* request listener the host server had before the interceptor was
\* installed, however many there were.
C19_PassedToPriorHandling ==
    (lastReq # NoReq /\ ~Served) => deliveredTo = ListenersBeforeInstall

\* C20: over any sequence of startTempVideoServer and close() calls the
\* wrapping listener is added at most once: from the first successful
\* registration on the host server has exactly one request listener, the
\* wrapper, whose original handler is a listener of the host (never the
\* wrapper itself), and it stays installed after every close().
C20_InstalledOnce ==
    /\ installs <= 1
    /\ interceptorInstalled <=> installs = 1
    /\ handles # {} => interceptorInstalled
    /\ interceptorInstalled =>
          /\ listeners = <<"interceptor">>
          /\ priorListeners \in HostListenerLists \ {<<>>}
          /\ originalHandler = priorListeners[1]
          /\ originalHandler # "interceptor"
    /\ ~interceptorInstalled =>
          /\ listeners \in HostListenerLists
          /\ originalHandler = "none"
          /\ activeVideos = {}

\* two files were registered and both closed: the wrapper is still the one
\* listener, installed once
C20_Witness ==
    /\ Cardinality(handles) = 2
    /\ activeVideos = {}
    /\ installs = 1
    /\ listeners = <<"interceptor">>
    /\ lastReq # NoReq

\* C21: every file is registered from its startTempVideoServer call until
\* its own close() and holds the buffer it was started with, whatever other
\* registrations and closes happen in between; a request for it is answered
\* from that buffer, and a close() removes the entry of its own file only.
C21_RegistryIndependent ==
    /\ activeVideos = handles \ closedFiles
    /\ DOMAIN videoBuffer = activeVideos
    /\ \A f \in activeVideos : videoBuffer[f] = ownBuffer[f]
    /\ Served =>
          /\ Len(lastReq.url) = 2
          /\ lastReq.url[2] \in handles
          /\ servedBuffer = ownBuffer[lastReq.url[2]]
          /\ lastRes = serveBuffer(lastReq.method, lastReq.range, servedBuffer)
    /\ (IsVideoRequest(lastReq) /\ Len(lastReq.url) = 2
           /\ lastReq.url[2] \in keysAtReq) => Served

\* one file has been closed, the other is still served, from its own buffer
C21_Witness ==
    /\ closedFiles = {"a.mp4"}
    /\ handles = {"a.mp4", "b.mp4"}
    /\ Served
    /\ lastReq.url = <<TMP_VIDEO_PREFIX, "b.mp4">>
    /\ lastRes.status = 200
    /\ lastRes.body = <<21, 22, 23>>
    /\ Len(ownBuffer["a.mp4"]) = 1

\* C22: a request that arrives after close() of the dedicated listener has
\* resolved is not answered with bytes of the buffer, also when it arrives
\* on a connection that was open when close() was called.
C22_NoBytesAfterClose ==
    (dReq # NoReq /\ dReqAfterClose) => dRes.body = <<>>

\* the dedicated listener received a GET or HEAD at the path it serves
AtServePath == dReq # NoReq /\ dReq.url = servePath /\ dReq.method \in {"GET", "HEAD"}

\* C23: at the registered path the dedicated listener answers every GET and
\* HEAD, with any Range header and any buffer, as the shared-port endpoint
\* does: same status, Content-Type, Content-Length, Content-Range,
\* Accept-Ranges and body.
C23_SameServingSemantics ==
    AtServePath =>
        LET shared == serveBuffer(dReq.method, dReq.range, dBuffer)
        IN /\ dRes.status = shared.status
           /\ dRes.contentType = shared.contentType
           /\ dRes.contentLength = shared.contentLength
           /\ dRes.contentRange = shared.contentRange
           /\ dRes.acceptRanges = shared.acceptRanges
           /\ dRes.body = shared.body

\* the answer to HEAD for a buffer: 200, the full length, video/mp4,
\* byte ranges accepted, no body
IsHeadAnswer(res, buffer) ==
    /\ res.status = 200
    /\ res.contentLength = NatToString(Len(buffer))
    /\ res.contentType = "video/mp4"
    /\ res.acceptRanges = "bytes"
    /\ res.body = <<>>

\* the dedicated listener's answers to HEAD at its path, for every Range
\* header and buffer length
DedicatedHeadAnswers ==
    \A h \in RangeHeaders, n \in 0..MaxTotal :
       IsHeadAnswer(rangeHandler([method |-> "HEAD", url |-> servePath,
                                  range |-> h], Buffer("a.mp4", n)),
                    Buffer("a.mp4", n))

\* C24: a HEAD request at a registered path is always answered 200 with
\* Content-Length equal to the full buffer length, Content-Type video/mp4,
\* Accept-Ranges bytes and an empty body, whatever Range header it carries;
\* the dedicated listener answers HEAD at its path the same way.
C24_HeadAnswer ==
    /\ (IsVideoRequest(lastReq) /\ Len(lastReq.url) = 2
           /\ lastReq.url[2] \in keysAtReq /\ lastReq.method = "HEAD")
          => /\ Served
             /\ servedBuffer = ownBuffer[lastReq.url[2]]
             /\ IsHeadAnswer(lastRes, servedBuffer)
    /\ DedicatedHeadAnswers

C24_Witness ==
    /\ Served
    /\ lastReq.method = "HEAD"
    /\ lastReq.range = <<"bytes=", "3", "-">>
    /\ Len(servedBuffer) = 2
    /\ lastRes.status = 200
    /\ lastRes.contentLength = <<"2">>

\* the message spells "carousel" somewhere, each letter in either case
MentionsCarousel(msg) ==
    \E i \in 0..(Len(msg) - 8) :
       \A k \in 1..8 : msg[i + k] \in {LowerChars[k], UpperChars[k]}

\* the message holds the digits 2207089 in a row
Mentions2207089(msg) ==
    \E i \in 0..(Len(msg) - 7) :
       /\ msg[i + 1] = "2" /\ msg[i + 2] = "2" /\ msg[i + 3] = "0"
       /\ msg[i + 4] = "7" /\ msg[i + 5] = "0" /\ msg[i + 6] = "8"
       /\ msg[i + 7] = "9"

\* C25: when the Instagram leg of the video flow fails, an error whose message
\* holds '2207089' or 'carousel' in any letter case leaves handleVideo as the
\* guidance error whose message contains the original text, every other error
\* leaves unchanged, and by then the compensation has run: the upload was
\* awaited and, when it produced a video, the delete was issued.
C25_GuidanceOrUnchanged ==
    (pc = "failed" /\ CatchEntered) =>
        /\ IF Mentions2207089(caught.msg) \/ MentionsCarousel(caught.msg)
           THEN /\ error.type = "reel_rejected"
                /\ error.msg # caught.msg
                /\ includes(error.msg, caught.msg)
           ELSE error = caught
        /\ fbVideoPromise.state \in {"resolved", "rejected"}
        /\ fbVideoPromise.state = "resolved" =>
              /\ Count("deleteFbVideo") = 1
              /\ deletedIds = <<fbVideoPromise.id>>
        /\ fbVideoPromise.state = "rejected" => Count("deleteFbVideo") = 0

\* an upper-case CAROUSEL error was turned into the guidance after the delete
C25_Witness ==
    /\ pc = "failed"
    /\ CatchEntered
    /\ caught.msg = UpperChars
    /\ error.type = "reel_rejected"
    /\ Count("deleteFbVideo") = 1

\* handleImage returned after a first container-create answered 2xx with an
\* id and a publish that succeeded at once
ImageHappyPath ==
    /\ kind = "image"
    /\ pc = "done"
    /\ containerResp.statusCode \in 200..299
    /\ containerResp.id # NoId
    /\ Len(publishArgs) = 1

\* C26: on the image happy path nothing is downloaded or transcoded, the calls
\* are exactly container-create, publish, photo upload by URL, feed post and
\* permalink in that order, and the result holds the published post id, its
\* permalink, the feed post id and the id of the photo the feed post attaches.
C26_ImageHappyPath ==
    ImageHappyPath =>
        /\ log = <<"tryCreateIgImageContainer", "publishIgContainer",
                   "uploadFbPhotoFromUrl", "createFbFeedPost", "getIgPermalink">>
        /\ Count("downloadMedia") = 0
        /\ Count("convertImage") = 0
        /\ publishArgs = <<containerResp.id>>
        /\ lastResp.id \in Ids
        /\ igPosts = {lastResp.id}
        /\ result.instagram_post_id = lastResp.id
        /\ result.instagram_permalink = lastResp.id
        /\ result.facebook_photo_id \in Ids
        /\ fbPhotos = {result.facebook_photo_id}
        /\ fbFeedPosts = {[id |-> result.facebook_post_id.id,
                           media_fbid |-> result.facebook_photo_id]}
        /\ result.facebook_post_id.id \in Ids
        /\ result.facebook_video_id = NoId

\* the container and the published post carry different ids
C26_Witness ==
    /\ ImageHappyPath
    /\ containerResp.id = 1
    /\ result.instagram_post_id = 2
    /\ result.facebook_photo_id = 1
    /\ result.facebook_post_id.id = 2

\* handleVideo returned
VideoHappyPath == kind = "video" /\ pc = "done"

\* C27: on the video happy path the transcoder ran exactly once, the served
\* file was registered once and unregistered once, the poll saw FINISHED
\* within its 30 polls, the returned feed post id is the page id, an
\* underscore and the uploaded video id, and that video id is the asset id.
C27_VideoHappyPath ==
    VideoHappyPath =>
        /\ Count("convertVideo") = 1
        /\ registrations = 1
        /\ closeCalls = 1
        /\ activeVideos = {}
        /\ lastStatus = "FINISHED"
        /\ Count("getIgContainerStatus") \in 1..30
        /\ Count("getIgContainerStatus") = pollAttempt + 1
        /\ Count("uploadFbVideoFromBuffer") = 1
        /\ fbVideoPromise.state = "resolved"
        /\ fbVideoPromise.id \in fbVideos
        /\ deletedIds = <<>>
        /\ result.facebook_post_id = [page |-> "facebookPageId_",
                                      id |-> fbVideoPromise.id]
        /\ result.facebook_video_id = fbVideoPromise.id
        /\ result.instagram_post_id = lastResp.id

\* FINISHED was seen by the last poll of the loop
C27_Witness ==
    /\ VideoHappyPath
    /\ Count("getIgContainerStatus") = 30
    /\ result.facebook_video_id = 2
    /\ result.instagram_post_id = 1

\* the calls other than publish and the status poll
OneShotCalls ==
    {"tryCreateIgImageContainer", "createIgImageContainer",
     "createIgReelContainer", "uploadFbPhotoFromBuffer", "uploadFbPhotoFromUrl",
     "uploadFbVideoFromBuffer", "createFbFeedPost", "deleteFbVideo",
     "getIgPermalink"}

HasNewlineRun(str) ==
    \E i \in 1..(Len(str) - 2) :
       str[i] = "\n" /\ str[i + 1] = "\n" /\ str[i + 2] = "\n"

\* the last characters of str are those of suffix
HasSuffix(str, suffix) ==
    /\ Len(suffix) <= Len(str)
    /\ \A k \in 1..Len(suffix) : str[Len(str) - Len(suffix) + k] = suffix[k]

\* C28 as stated: for every caption and every non-empty suffix the prepared
\* caption ends with the suffix.
C28_EndsWithSuffix ==
    (captionCalls >= 1 /\ hashSuffix # <<>>) => HasSuffix(prepared, hashSuffix)

\* C28: for every caption and every non-empty suffix without a run of three
\* or more newlines, the prepared caption ends with the suffix and holds no
\* such run.
C28_EndsWithRunFreeSuffix ==
    captionCalls >= 1 =>
        /\ ~HasNewlineRun(prepared)
        /\ (hashSuffix # <<>> /\ ~HasNewlineRun(hashSuffix)) =>
              HasSuffix(prepared, hashSuffix)

\* the newline added before the suffix made a run of five, which was cut to
\* the two newlines the suffix starts with
C28_Witness ==
    /\ captionCalls = 1
    /\ caption = <<"a", "\n", "\n">>
    /\ hashSuffix = <<"\n", "\n", "a">>
    /\ prepared = <<"a", "\n", "\n", "a">>

\* C29: formatting a prepared caption again with the same suffix returns it
\* unchanged.
C29_Idempotent == captionCalls >= 2 => prepared = caption

\* the calls of `call` execute has issued
ExecCalls(call) == { k \in DOMAIN execLog : execLog[k][1] = call }

\* C31: in execute the output entries are paired with the item indexes in
\* input order, a result for each item that succeeded and an error entry for
\* each that failed; each item is handled at most once and by the flow of its
\* own media type; with continue-on-fail every item yields exactly one entry
\* and execute never throws; without it the first failure ends execute, with
\* no entry for the failed item and no call for any later one.
C31_ItemsIndependent ==
    /\ \A k \in DOMAIN returnData :
          /\ returnData[k].pairedItem = k - 1
          /\ k <= Len(outcomes)
          /\ returnData[k].json = (IF outcomes[k] = "ok" THEN "result"
                                                         ELSE "error")
    /\ \A k \in DOMAIN execLog :
          /\ execLog[k][2] < Len(items)
          /\ \A j \in DOMAIN execLog :
                j < k => /\ execLog[j][2] <= execLog[k][2]
                         /\ execLog[j] # execLog[k]
          /\ execLog[k][1] = "handleImage" => items[execLog[k][2] + 1] = "image"
          /\ execLog[k][1] = "handleVideo" => items[execLog[k][2] + 1] = "video"
    /\ execPc = "returned" =>
          /\ Len(returnData) = Len(items)
          /\ Len(outcomes) = Len(items)
    /\ continueOnFail => execPc # "thrown"
    /\ ~continueOnFail =>
          /\ \A k \in DOMAIN outcomes :
                outcomes[k] = "failed" => k = Len(outcomes)
          /\ \A k \in DOMAIN returnData : returnData[k].json = "result"
          /\ (\E k \in DOMAIN outcomes : outcomes[k] = "failed") =>
                /\ execPc \in {"catch", "thrown"}
                /\ itemIndex = Len(outcomes) - 1
                /\ \A k \in DOMAIN execLog : execLog[k][2] <= itemIndex
    /\ execPc = "thrown" => ~ENABLED ExecuteNext

\* with continue-on-fail, the first and the third of three items failed and
\* the second succeeded
C31_Witness ==
    /\ continueOnFail
    /\ execPc = "returned"
    /\ outcomes = <<"failed", "ok", "failed">>
    /\ returnData = <<[json |-> "error", pairedItem |-> 0],
                      [json |-> "result", pairedItem |-> 1],
                      [json |-> "error", pairedItem |-> 2]>>

\* C32: one execute over its input items issues the page-token exchange
\* exactly once.
C32_TokenExchangedOnce ==
    (/\ execPc = "returned"
     /\ items # <<>>
     /\ \A k \in DOMAIN outcomes : outcomes[k] = "ok") =>
        Cardinality(ExecCalls("getPageAccessToken")) = 1

\* the calls issued so far, the sleeps left out
CallsIssued == Len(SelectSeq(log, LAMBDA c : c # "sleep"))

\* the most calls one handleVideo can issue: download, transcode, server
\* start, upload, container create, every poll, every publish attempt,
\* the delete or the permalink, and the close
MostCalls == 7 + maxPolls + (Len(delays) + 1)

\* C33: if every call eventually returns, handleImage and handleVideo
\* eventually end with a result or an error, whatever the responses are, and
\* they never issue more calls than the polls and the publish attempts allow.
C33_BoundedPublish == <>Terminated /\ [](CallsIssued <= MostCalls)

\* the longest video run: 30 polls, then six publish attempts
C33_Witness ==
    /\ Terminated
    /\ kind = "video"
    /\ Count("getIgContainerStatus") = maxPolls
    /\ Count("publishIgContainer") = Len(delays) + 1
    /\ CallsIssued = MostCalls

\* C34: when the first-destination leg of the video flow has succeeded and
\* the concurrent upload is rejected, handleVideo throws the upload's error,
\* returns no result and issues no delete; the upload's error is never the
\* one thrown once the catch block has been entered.
C34_UploadErrorReported ==
    /\ (kind = "video" /\ pc = "failed" /\ igPostId # NoId
           /\ fbVideoPromise.state = "rejected") =>
          /\ error = Raised("uploadFbVideoFromBuffer", PlainMessage)
          /\ result = NoResult
          /\ Count("deleteFbVideo") = 0
          /\ Count("getIgPermalink") = 0
          /\ ~CatchEntered
    /\ (kind = "video" /\ igPostId # NoId
           /\ fbVideoPromise.state = "rejected") =>
          pc \in {"vid_finally", "vid_join", "failed"}
    /\ CatchEntered => error.src # "uploadFbVideoFromBuffer"
    /\ error.src = "uploadFbVideoFromBuffer" =>
          /\ pc = "failed"
          /\ igPostId # NoId
          /\ closeCalls = 1

\* published on the first destination, upload rejected, error thrown
C34_Witness ==
    /\ pc = "failed"
    /\ igPostId = 1
    /\ igPosts = {1}
    /\ fbVideoPromise.state = "rejected"
    /\ error.src = "uploadFbVideoFromBuffer"
    /\ fbVideos = {}

\* C35: a delete is issued only after the first-destination leg has failed
\* and the upload has resolved with an id, and only for that id; a run whose
\* publish succeeded issues no delete.
C35_DeleteOnlyAfterFailure ==
    /\ Count("deleteFbVideo") = Len(deletedIds)
    /\ Len(deletedIds) <= 1
    /\ deletedIds # <<>> =>
          /\ kind = "video"
          /\ CatchEntered
          /\ caught.src \in {"createIgReelContainer", "pollIgContainer",
                             "getIgContainerStatus", "publishIgContainer"}
          /\ igPostId = NoId
          /\ fbVideoPromise.state = "resolved"
          /\ fbVideoPromise.id \in Ids
          /\ deletedIds = <<fbVideoPromise.id>>
    /\ igPostId # NoId => deletedIds = <<>>

\* the upload was still pending when the poll failed; its video was deleted
C35_Witness ==
    /\ deletedIds = <<2>>
    /\ uploadAtCatch = "pending"
    /\ caught.type = "processing_failed"
    /\ fbVideos = {}
    /\ pc = "failed"

\* handleImage took no fallback: the first container-create was accepted
NoFallback ==
    /\ kind = "image"
    /\ containerResp.statusCode \in 200..299
    /\ containerResp.id # NoId

\* C36: in the image flow without fallback no photo upload and no feed post
\* is issued before the publish has succeeded, so a failed publish leaves
\* nothing on the second destination.
C36_NothingBeforePublish ==
    NoFallback =>
        /\ (\/ Count("uploadFbPhotoFromUrl") > 0
            \/ Count("uploadFbPhotoFromBuffer") > 0
            \/ Count("createFbFeedPost") > 0
            \/ fbPhotos # {}
            \/ fbFeedPosts # {}) => (igPostId # NoId /\ igPostId \in igPosts)
        /\ (pc = "failed" /\ error.src = "publishIgContainer") =>
              (fbPhotos = {} /\ fbFeedPosts = {} /\ fbPhotoId = NoId)

\* the publish failed after its retries with nothing on the second destination
C36_Witness ==
    /\ NoFallback
    /\ pc = "failed"
    /\ error.src = "publishIgContainer"
    /\ Len(publishArgs) = 6
    /\ fbPhotos = {}

\* a publish response that is neither a 2xx with an id nor a 4xx
IsTransient(resp) ==
    /\ resp # NoResp
    /\ ~(resp.statusCode \in 200..299 /\ resp.id # NoId)
    /\ resp.statusCode \notin 400..499

NonTerminalStatus == lastStatus \in ContainerStatuses \ {"FINISHED", "ERROR", "EXPIRED"}

\* C38: a status other than FINISHED, ERROR and EXPIRED, PUBLISHED included,
\* neither ends the poll loop nor fails it: the next poll follows, the
\* thirtieth such status ends in the timeout error, and the container is not
\* published by this call.
C38_PublishedKeepsPolling ==
    NonTerminalStatus =>
        /\ publishArgs = <<>>
        /\ igPostId = NoId
        /\ caught.type # "processing_failed"
        /\ error = NoError =>
              /\ pc \in {"vid_poll", "vid_poll_status"}
              /\ pollAttempt < maxPolls
        /\ pollAttempt = maxPolls =>
              /\ caught.type = "timeout"
              /\ Count("getIgContainerStatus") = maxPolls
        /\ caught.type = "timeout" => pollAttempt = maxPolls

\* PUBLISHED was the answer to the thirtieth poll
C38_Witness ==
    /\ lastStatus = "PUBLISHED"
    /\ pollAttempt = maxPolls
    /\ pc = "failed"
    /\ error.type = "timeout"
    /\ igPosts = {}

\* the header reads bytes=<digits>-<optional digits>
WellFormedRange(header) ==
    \E a \in DigitStrings, b \in DigitStrings \cup {<<>>} :
       header = <<"bytes=">> \o a \o <<"-">> \o b

\* the answer to a range that cannot be served from a buffer
IsUnsatisfiable(res, buffer) ==
    /\ res.status = 416
    /\ res.contentRange = <<"bytes */">> \o NatToString(Len(buffer))
    /\ res.body = <<>>

\* a 206 answer names a range inside the buffer and carries its bytes
IsPartialOrOther(res, buffer) ==
    res.status = 206 =>
       \E start \in 0..(Len(buffer) - 1), end \in 0..(Len(buffer) - 1) :
          /\ start <= end
          /\ res.contentRange = <<"bytes ">> \o NatToString(start) \o <<"-">>
                                   \o NatToString(end) \o <<"/">>
                                   \o NatToString(Len(buffer))
          /\ res.body = [i \in 1..(end - start + 1) |-> buffer[start + i]]

\* the dedicated listener's answers to GET at its path, for every Range
\* header and buffer length
DedicatedRangeAnswers ==
    \A h \in RangeHeaders \ {<<>>}, n \in 0..MaxTotal :
       LET res == rangeHandler([method |-> "GET", url |-> servePath,
                                range |-> h], Buffer("a.mp4", n))
       IN /\ ~WellFormedRange(h) => IsUnsatisfiable(res, Buffer("a.mp4", n))
          /\ res.status \in {206, 416}
          /\ IsPartialOrOther(res, Buffer("a.mp4", n))

C40_ReturnedUrlServed ==
    \A f \in keysAtReq :
       (/\ interceptorInstalled
        /\ lastReq.method = "GET"
        /\ lastReq.range = <<>>
        /\ lastReq.url = PathOf(ReturnedUrl(f))) =>
          /\ lastRes.status = 200
          /\ lastRes.body = ownBuffer[f]

====
